---- MODULE Spec2Model ----
(***************************************************************************)
(* Bull's Eye analysis worker: the job orchestration pipeline              *)
(* (analysis/engine.py), the job row and findings store (database.py),     *)
(* the stop request of the REST layer (api/main.py) and the per-credential *)
(* lanes of the Ollama client (llm/ollama_client.py).                      *)
(*                                                                         *)
(* The engine runs in a Celery worker process; the stop request runs in    *)
(* the API process.  They share only the SQLite job row, so an engine step *)
(* is one stretch of code between two accesses of the job row (or between  *)
(* two awaits), and stop_job's read and write interleave freely with them. *)
(***************************************************************************)
EXTENDS Integers, Sequences, FiniteSets, TLC

\* ------------------------------------------------------------------ bounds
MaxFiles == 3
MaxCreds == 2
MaxStops == 1
NumUniversal == 2
NumComponents == 2

\* ------------------------------------------------------------ Python values
\* Optional[str] = None
None == "None"
\* Optional[int] = None (progress is 0..100, so -1 is free)
NoProgress == -1
\* the poison pill put on the queue is Python's None; real tasks are 1..n
Pill == 0

Max(a, b) == IF a >= b THEN a ELSE b
Min(a, b) == IF a <= b THEN a ELSE b

VARIABLES
    job,            \* the persisted job row: status, message, progress, error
    tracker,        \* StatusTracker: current_stage, progress
    pc,             \* where the coroutine run() is
    ip,             \* index of the statement of run() being executed
    exc,            \* text of the exception being handled by run()
    result,         \* what run() returned
    killed,         \* the Celery task was terminated by a revoke
    stopPc,         \* stop_job: "idle" or "write" (between its read and its write)
    stopSaved,      \* the progress stop_job read
    stopsLeft,      \* stop requests still to come
    revokePending,  \* a revoke(terminate=True) was sent and not yet delivered
    flagEverSet,    \* history: stop_job has written status cancelled
    env,            \* what this run meets: number of files, credentials, scanner outcomes
    \* _run_all_scanners
    uIdx,           \* i, the index of the universal scanner (0-based)
    cIdx,           \* comp_idx, the index of the component (0-based)
    sIdx,           \* index of the language scanner within the component (0-based)
    scannerRuns,    \* table scanner_results, in creation order (result_id = position)
    allFindings,    \* the list all_findings being built
    findings,       \* table findings
    outcomeLog,     \* history: what each scanner invocation did, in order
    lastCall,       \* the arguments of the last direct call of create_finding
    lastId,         \* what that call returned (0: None)
    \* _run_llm_analysis
    fileJobs,       \* file_jobs, the tasks in queue order
    queue,          \* the asyncio.Queue
    unfinished,     \* the queue's count of unfinished tasks (put minus task_done)
    workerCount,    \* worker_count
    wpc,            \* where each worker coroutine is
    wtask,          \* the task each worker holds
    processedFiles, \* processed_files
    lastProgress,   \* last_progress
    sumIdx,         \* index of the component being summarised (0-based)
    summaries,      \* file_summaries_by_component: the tasks summarised per component
    analysisLog,    \* history: per task, how its analysis ended and whether the job was cancelled then
    components,     \* table components: status, health_score, analysis_summary
    summaryLog,     \* history: per component, how the chat call of its summary ended
    startCount,     \* history: how many times each task was started
    doneCount,      \* history: how many times each task was finished
    pills,          \* history: how many poison pills each worker consumed
    \* llm/ollama_client.py
    locks,          \* _ollama_locks: lock key -> lock object
    lockHolder,     \* lock object -> the caller holding it (0: free)
    lastRequestTimes, \* _last_request_times: lock key -> timestamp
    now,            \* time.time()
    cpc,            \* where each caller of _chat_once is
    cLock,          \* the lock object each caller got from _get_lock
    cWake,          \* when each sleeping caller wakes
    sentLog,        \* history: per credential, the timestamps recorded in order
    \* llm/ollama_client.py: one call of analyze_code
    aPc,            \* where analyze_code is
    aModel,         \* self.model
    chatCall,       \* the running call of chat: its arguments and loop state
    requests,       \* history: the requests of the latest chat call, in order
    response,       \* the response analyze_code got from chat
    aResult,        \* what analyze_code returned, or the exception it raised
    repairCalls,    \* history: how many times the repair chat was called
    chatEnd,        \* history: how the latest finished call of chat ended
    \* the working tree of the job
    disk,           \* self.repo_path, whether repo_dir exists, whether rmtree raised
    reports,        \* table reports: the number of rows of the job
    keyring,        \* job config keys, settings key, self.ollama_clients, the workers' clients
    stream,         \* event_generator of one status stream: last_progress, last_status
    \* one call of _filter_security_irrelevant_files
    triage          \* its arguments, locals, position and (history) the batches it submitted

jobVars == <<job, tracker>>
runVars == <<pc, ip, exc, result, killed>>
stopVars == <<stopPc, stopSaved, stopsLeft, revokePending, flagEverSet>>
scanVars == <<uIdx, cIdx, sIdx, scannerRuns, allFindings, findings, outcomeLog,
             lastCall, lastId>>
llmVars == <<fileJobs, queue, unfinished, workerCount, wpc, wtask, processedFiles,
             lastProgress, sumIdx, summaries, analysisLog, components, summaryLog, startCount, doneCount, pills>>
stageVars == <<scanVars, llmVars>>
laneVars == <<locks, lockHolder, lastRequestTimes, now, cpc, cLock, cWake, sentLog>>
clientVars == <<aPc, aModel, chatCall, requests, response, aResult, repairCalls, chatEnd>>
vars == <<jobVars, runVars, stopVars, env, stageVars, laneVars, clientVars, disk, reports, keyring, stream, triage>>

\* ------------------------------------------------------------ database.py
Terminal == {"completed", "failed", "cancelled"}

CoalesceStored(a, b) == IF b = None THEN a ELSE b

\* COALESCE(?, column): the argument unless it is NULL
Coalesce(a, b) == IF a = None THEN b ELSE a
CoalesceInt(a, b) == IF a = NoProgress THEN b ELSE a

\* a trace that keeps its latest row only
AddStatusUpdateLatest(updates, stage, message, progress) ==
    <<[stage |-> stage, message |-> message, progress |-> progress]>>

\* Database.add_status_update: INSERT INTO status_updates
AddStatusUpdate(updates, stage, message, progress) ==
    Append(updates, [stage |-> stage, message |-> message, progress |-> progress])

\* Database.update_job_status: status and status_message are overwritten,
\* progress and error_message keep their old value when the argument is None.
\* The insert that follows, add_status_update(job_id, status, message or status,
\* progress, progress_detail), adds a row to the job's status trace.
UpdateJobStatus(j, status, message, progress, error) ==
    [status |-> status,
     message |-> message,
     progress |-> CoalesceInt(progress, j.progress),
     error |-> Coalesce(error, j.error),
     updates |-> AddStatusUpdate(j.updates, status,
                                 IF message = None THEN status ELSE message, progress)]

\* ------------------------------------------------------------ engine.py
\* StatusTracker.log_step: a row with the tracker's stage and progress is added
\* to the trace; the jobs row is not touched
LogStep(j, t, message) ==
    [j EXCEPT !.updates = AddStatusUpdate(@, t.stage, message, t.progress)]

\* StatusTracker.update
TrackerUpdate(stage, progress) == [stage |-> stage, progress |-> progress]

\* AnalysisEngine._is_cancelled
IsCancelled == job.status = "cancelled"

\* a scanner loop whose checkpoint sits inside the try block of the scan: the
\* "except Exception" of the loop catches AnalysisCancelled and the loop goes on
CancelledToLoop(checkpoint) ==
    IF checkpoint = "u_loop" THEN "u_update" ELSE "cancelled_handler"

\* where "raise AnalysisCancelled()" of _ensure_not_cancelled lands: every
\* call is outside the try blocks of the sub-units, so the first handler on
\* the way up is "except AnalysisCancelled" of run()
CancelledTo(checkpoint) == "cancelled_handler"

StmtRevisit(op, stage, progress, message) ==
    [op |-> op, stage |-> IF progress = 45 THEN "cloning" ELSE stage,
     progress |-> progress, message |-> message]

Stmt(op, stage, progress, message) ==
    [op |-> op, stage |-> stage, progress |-> progress, message |-> message]

\* AnalysisEngine.run, the statements of its try block in order
RunProgram ==
    << Stmt("check", "", 0, ""),
       Stmt("update", "cloning", 0, "Cloning repository"),
       Stmt("clone", "", 0, ""),
       Stmt("check", "", 0, ""),
       Stmt("update", "cloning", 5, "Repository cloned successfully"),
       Stmt("update", "detecting_components", 8, "Analyzing repository structure..."),
       Stmt("detect", "", 0, ""),
       Stmt("check", "", 0, ""),
       Stmt("update", "detecting_components", 10, "Detected components"),
       Stmt("save", "", 0, ""),
       Stmt("update", "scanning", 15, "Running security scanners..."),
       Stmt("scanners", "", 0, ""),
       Stmt("check", "", 0, ""),
       Stmt("update", "scanning", 45, "Scanners complete"),
       Stmt("update", "analyzing", 50, "Starting AI-powered code analysis..."),
       Stmt("llm", "", 0, ""),
       Stmt("check", "", 0, ""),
       Stmt("update", "generating_report", 90, "Generating analysis report..."),
       Stmt("report", "", 0, ""),
       Stmt("update", "completed", 100, "Analysis completed successfully"),
       Stmt("return", "", 0, "") >>

At(op) == ~killed /\ pc = "run" /\ RunProgram[ip].op = op

\* self._ensure_not_cancelled() between the stages of run()
EnsureNotCancelled ==
    /\ At("check")
    /\ IF IsCancelled
       THEN pc' = CancelledTo("check") /\ ip' = ip
       ELSE pc' = pc /\ ip' = ip + 1
    /\ UNCHANGED <<job, tracker, exc, result, killed, stopVars, env, stageVars, laneVars, clientVars, disk, reports, keyring, stream, triage>>

\* self.status.update(stage, message, progress) in run()
StageUpdate ==
    /\ At("update")
    /\ LET s == RunProgram[ip] IN
       /\ tracker' = TrackerUpdate(s.stage, s.progress)
       /\ job' = UpdateJobStatus(job, s.stage, s.message, s.progress, None)
    /\ ip' = ip + 1
    /\ UNCHANGED <<pc, exc, result, killed, stopVars, env, stageVars, laneVars, clientVars, disk, reports, keyring, stream, triage>>

\* settings.repos_dir / f"repo_{self.job_id[:8]}"
RepoDir == "repo_dir"

Disk(repo_path, exists, rmtree_failed) ==
    [repo_path |-> repo_path, exists |-> exists, rmtree_failed |-> rmtree_failed]

\* what one call of _clone_repository can do: "cloned" returns repo_dir;
\* "failed_clean" is a failure that leaves nothing in repo_dir; "failed_with_tree"
\* is a failure with repo_dir on disk (git interrupted part-way, or a statement
\* after clone_from raising: the commit lookup, set_job_commit, log_step).
\* Both failures are caught and return None.
CloneOutcomes == {"cloned", "failed_clean", "failed_with_tree"}

\* a clone whose failure is not reported to run()
CloneReturnsDir(o) == RepoDir

\* what _clone_repository returns: repo_dir, or None from its except clauses
CloneReturns(o) == IF o = "cloned" THEN RepoDir ELSE None

\* self.repo_path = await self._clone_repository(...); a None makes run() raise
CloneRepository ==
    /\ At("clone")
    /\ \E o \in CloneOutcomes :
          /\ disk' = Disk(CloneReturns(o), o # "failed_clean", FALSE)
          /\ IF CloneReturns(o) # None
             THEN /\ pc' = pc /\ ip' = ip + 1 /\ exc' = exc
                  /\ job' = IF o = "cloned"
                            THEN LogStep(LogStep(job, tracker, "Cloning"), tracker,
                                         "Cloned at commit")
                            ELSE LogStep(job, tracker, "Cloning")
             ELSE /\ pc' = "failed_handler" /\ ip' = ip
                  /\ exc' = "Failed to clone repository"
                  /\ job' = LogStep(job, tracker, "Cloning")
    /\ UNCHANGED <<tracker, result, killed, stopVars, env, stageVars, laneVars, clientVars, reports, keyring, stream, triage>>

\* the finally block of run(): if self.repo_path and self.repo_path.exists():
\* shutil.rmtree(self.repo_path), whose exception is logged and dropped
Cleanup ==
    IF disk.repo_path # None /\ disk.exists
    THEN \E removed \in BOOLEAN : disk' = Disk(disk.repo_path, ~removed, ~removed)
    ELSE disk' = disk

\* Optional[int] = None for a health score (scores are 0..100)
NoScore == -1

\* the row create_component inserted
NewComponent == [status |-> "pending", health_score |-> NoScore, summary |-> ""]

\* for comp in components: db.create_component(...), db.create_file(...) for
\* each of its files, db.update_component(...): one row per detected component
SavedComponents == [c \in 1..NumComponents |-> NewComponent]

\* detector.detect_components(); saving components and files
DetectAndSave ==
    /\ At("detect") \/ At("save")
    /\ ip' = ip + 1
    /\ job' = IF At("save") THEN LogStep(job, tracker, "Saved components") ELSE job
    /\ components' = IF At("save") THEN SavedComponents ELSE components
    /\ UNCHANGED <<tracker, pc, exc, result, killed, stopVars, env, scanVars, fileJobs, queue,
                   unfinished, workerCount, wpc, wtask, processedFiles, lastProgress, sumIdx,
                   summaries, analysisLog, summaryLog, startCount, doneCount, pills,
                   laneVars, clientVars, disk, reports, keyring, stream, triage>>

\* str(e) of the exceptions a stage can raise; some exceptions have no text
StageErrors == {"database is locked", ""}

\* an exception other than AnalysisCancelled leaves detect_components, the
\* saving of components and files, or _generate_report
StageRaises ==
    /\ At("detect") \/ At("save") \/ (~killed /\ pc = "report_wait")
    /\ \E e \in StageErrors : exc' = e
    /\ pc' = "failed_handler"
    /\ UNCHANGED <<job, tracker, ip, result, killed, stopVars, env, stageVars, laneVars, clientVars, disk, reports, keyring, stream, triage>>

\* return True
RunReturn ==
    /\ At("return")
    /\ pc' = "returned"
    /\ result' = TRUE
    /\ UNCHANGED <<job, tracker, ip, exc, killed, stopVars, env, stageVars, laneVars, clientVars, reports, keyring, stream, triage>>
    /\ Cleanup

\* except AnalysisCancelled: record cancelled with the tracker's progress
CancelledHandler ==
    /\ ~killed /\ pc = "cancelled_handler"
    /\ job' = UpdateJobStatus(job, "cancelled", "Job stopped by user",
                              tracker.progress, "Job was cancelled by user")
    /\ pc' = "returned"
    /\ result' = FALSE
    /\ UNCHANGED <<tracker, ip, exc, killed, stopVars, env, stageVars, laneVars, clientVars, reports, keyring, stream, triage>>
    /\ Cleanup

\* except Exception: first write, self.status.update("failed", ...)
FailedHandler ==
    /\ ~killed /\ pc = "failed_handler"
    /\ job' = UpdateJobStatus(job, "failed", "Analysis failed: " \o exc,
                              tracker.progress, None)
    /\ tracker' = TrackerUpdate("failed", tracker.progress)
    /\ pc' = "failed_handler2"
    /\ UNCHANGED <<ip, exc, result, killed, stopVars, env, stageVars, laneVars, clientVars, disk, reports, keyring, stream, triage>>

\* except Exception: second write, db.update_job_status(status="failed", error=str(e))
FailedHandlerError ==
    /\ ~killed /\ pc = "failed_handler2"
    /\ job' = UpdateJobStatus(job, "failed", None, NoProgress, exc)
    /\ pc' = "returned"
    /\ result' = FALSE
    /\ UNCHANGED <<tracker, ip, exc, killed, stopVars, env, stageVars, laneVars, clientVars, reports, keyring, stream, triage>>
    /\ Cleanup

\* ------------------------------------------------- database.py: findings
\* Optional[int] = None for a line number
NoLine == -1

\* f"{x}" of an Optional[int]
IntStr(n) == IF n = NoLine THEN "None" ELSE ToString(n)

\* rule_id or title
RuleOrTitle(rule_id, title) == IF rule_id = None \/ rule_id = "" THEN title ELSE rule_id

FingerprintWithTitle(scanner, rule_id, title, file_path, line_start) ==
    scanner \o ":" \o RuleOrTitle(rule_id, title) \o ":" \o title \o ":" \o file_path
        \o ":" \o IntStr(line_start)

\* fingerprint = f"{scanner}:{rule_id or title}:{file_path}:{line_start}"
Fingerprint(scanner, rule_id, title, file_path, line_start) ==
    scanner \o ":" \o RuleOrTitle(rule_id, title) \o ":" \o file_path
        \o ":" \o IntStr(line_start)

\* the uniqueness constraint of table findings on the fingerprint
FingerprintTaken(store, fp) == \E r \in store : r.fingerprint = fp

\* the row create_finding inserts; the fresh uuid is the row's number. No caller
\* passes the optional fingerprint argument, so it is always derived.
FindingRow(store, scanner, component, f) ==
    [id |-> Cardinality(store) + 1,
     scanner |-> scanner,
     component |-> component,
     rule_id |-> f.rule_id,
     title |-> f.title,
     file_path |-> f.file_path,
     line_start |-> f.line_start,
     severity |-> f.severity,
     fingerprint |-> Fingerprint(scanner, f.rule_id, f.title, f.file_path, f.line_start)]

\* Database.create_finding: the table after the call, and what the call returns
\* (the new id, or 0 for None when the insert hit the uniqueness constraint)
CreateFinding(store, scanner, component, f) ==
    LET row == FindingRow(store, scanner, component, f) IN
    IF FingerprintTaken(store, row.fingerprint)
    THEN [store |-> store, id |-> 0]
    ELSE [store |-> store \cup {row}, id |-> row.id]

\* the loop "for finding in findings: db.create_finding(...)"
RECURSIVE CreateFindings(_, _, _, _)
CreateFindings(store, scanner, component, fs) ==
    IF fs = <<>> THEN store
    ELSE CreateFindings(CreateFinding(store, scanner, component, Head(fs)).store,
                        scanner, component, Tail(fs))

\* Database.create_scanner_result
CreateScannerResult(runs, scanner, component) ==
    Append(runs, [scanner |-> scanner, component |-> component, status |-> "running",
                  findings_count |-> 0, error_message |-> None])

\* an update that writes the count and the error and leaves the status
UpdateScannerCount(runs, id, status, count, error) ==
    [runs EXCEPT ![id] = [@ EXCEPT !.findings_count = count, !.error_message = error]]

\* Database.update_scanner_result: status, count and error are all overwritten
UpdateScannerResult(runs, id, status, count, error) ==
    [runs EXCEPT ![id] = [@ EXCEPT !.status = status, !.findings_count = count,
                                   !.error_message = error]]

\* ------------------------------------------------- scanners/__init__.py
\* get_universal_scanners: gitleaks and trivy, then the enabled optional ones
UniversalScanners ==
    SubSeq(<<"gitleaks", "trivy", "opengrep", "osv-scanner", "lizard">>,
           1, Min(NumUniversal, 5))

\* get_scanner_for_language
ScannerForLanguage(language) ==
    CASE language = "python" -> <<"ruff", "bandit">>
      [] language = "javascript" -> <<"biome">>
      [] language = "typescript" -> <<"biome">>
      [] language = "go" -> <<"golangci-lint", "gosec">>
      [] language = "rust" -> <<"clippy">>
      [] OTHER -> <<>>

\* the components the detector found: component c (db_id c) and its language
ComponentLanguage(c) ==
    CASE c % 3 = 1 -> "rust"
      [] c % 3 = 2 -> "javascript"
      [] OTHER -> "unknown"

\* the findings a scanner can report
FindingA == [rule_id |-> "R1", title |-> "first", file_path |-> "a.py",
             line_start |-> 1, severity |-> "high"]
FindingA2 == [rule_id |-> "R1", title |-> "again", file_path |-> "a.py",
              line_start |-> 1, severity |-> "low"]
FindingB == [rule_id |-> None, title |-> "first", file_path |-> "a.py",
             line_start |-> NoLine, severity |-> "info"]

\* ------------------------------------------- scanners/base.py: BaseScanner
\* what a scanner's tool can do when run() is called: the tool is not
\* installed, the target is rejected, the subprocess exceeds its 10 minutes,
\* subprocess.run raises another error, the tool exits, or parse_output (an
\* abstract method, outside run's try blocks) raises
ToolConditions ==
    {"unavailable", "invalid_target", "timeout", "os_error", "exited", "parse_error"}

\* the conditions under which the tool produced no usable result
ToolFailures == {"unavailable", "invalid_target", "timeout", "os_error"}

\* BaseScanner.run: a ScannerResult with success False and no findings for an
\* unavailable tool, an invalid target, a timeout or another error of
\* subprocess.run; otherwise the parsed findings, success for exit codes 0, 1
BaseScannerRun(tool, exit_code, fs) ==
    IF tool \in ToolFailures
    THEN [raises |-> FALSE, success |-> FALSE, findings |-> <<>>]
    ELSE IF tool = "parse_error"
    THEN [raises |-> TRUE, success |-> FALSE, findings |-> <<>>]
    ELSE [raises |-> FALSE, success |-> exit_code \in {0, 1}, findings |-> fs]

\* BaseScanner.scan: awaits run() and returns [f.to_dict() for f in
\* result.findings]; result.success is not read, an exception of run() passes
BaseScannerScan(tool, exit_code, text, fs) ==
    LET scanned == BaseScannerRun(tool, exit_code, fs) IN
    [raises |-> scanned.raises, text |-> IF scanned.raises THEN text ELSE "",
     findings |-> scanned.findings, tool |-> tool]

Returns(fs) == BaseScannerScan("exited", 0, "", fs)
Raises(text) == BaseScannerScan("parse_error", 0, text, <<>>)

\* what one scanner.scan(...) can do: return a list of findings, or raise an
\* exception e, of which the engine uses str(e)
ScanOutcomes ==
    {Returns(<<>>), Returns(<<FindingA>>), Returns(<<FindingA, FindingA2, FindingB>>),
     Raises("boom"), Raises("")}

\* ------------------------------------------- engine.py: _run_all_scanners
\* progress of universal scanner i of n: 15 + int((i / scanner_count) * 15)
UniversalProgress(i, n) == 15 + (i * 15) \div n

\* the language scanners' progress counted down from the end of their band
LanguageProgressBack(c, n) == 45 - (c * 15) \div n

\* progress of the scanners of component comp_idx: 30 + int((comp_idx / len(components)) * 15)
LanguageProgress(c, n) == 30 + (c * 15) \div n

CurrentLanguageScanners == ScannerForLanguage(ComponentLanguage(cIdx + 1))

ScanUnchanged == <<exc, result, killed, stopVars, env, llmVars, laneVars, clientVars, disk, reports, keyring, stream, triage>>

\* run() calls _run_all_scanners; its first statement is _ensure_not_cancelled()
RunAllScanners ==
    /\ At("scanners")
    /\ IF IsCancelled
       THEN pc' = CancelledTo("scanners")
       ELSE pc' = "u_loop"
    /\ uIdx' = 0 /\ cIdx' = 0 /\ sIdx' = 0
    /\ allFindings' = <<>>
    /\ UNCHANGED <<job, tracker, ip, scannerRuns, findings, outcomeLog, lastCall, lastId,
                   ScanUnchanged>>

\* for i, scanner in enumerate(universal_scanners): self._ensure_not_cancelled()
UniversalLoop ==
    /\ ~killed /\ pc = "u_loop"
    /\ IF uIdx < Len(UniversalScanners)
       THEN pc' = IF IsCancelled THEN CancelledTo("u_loop") ELSE "u_update"
       ELSE pc' = "c_loop"
    /\ UNCHANGED <<job, tracker, ip, scanVars, ScanUnchanged>>

\* self.status.update("scanning", f"Running {scanner_name}...", progress)
UniversalUpdate ==
    /\ ~killed /\ pc = "u_update"
    /\ LET progress == UniversalProgress(uIdx, Len(UniversalScanners)) IN
       /\ tracker' = TrackerUpdate("scanning", progress)
       /\ job' = UpdateJobStatus(job, "scanning", "Running scanner", progress, None)
    /\ pc' = "u_start"
    /\ UNCHANGED <<ip, scanVars, ScanUnchanged>>

\* db.create_scanner_result(...) and the call of scanner.scan(...)
UniversalStart ==
    /\ ~killed /\ pc = "u_start"
    /\ scannerRuns' = CreateScannerResult(scannerRuns, UniversalScanners[uIdx + 1], 0)
    /\ pc' = "u_scan"
    /\ UNCHANGED <<job, tracker, ip, uIdx, cIdx, sIdx, allFindings, findings, outcomeLog, lastCall,
                   lastId, ScanUnchanged>>

\* what follows "findings = await scanner.scan(...)": the findings are stored
\* and appended, the run is finalized; an exception finalizes it as failed
AfterScan(o, scanner, component) ==
    LET id == Len(scannerRuns) IN
    /\ outcomeLog' = Append(outcomeLog, o)
    /\ IF o.raises
       THEN /\ scannerRuns' = UpdateScannerResult(scannerRuns, id, "failed", 0, o.text)
            /\ UNCHANGED <<findings, allFindings, job>>
       ELSE /\ findings' = CreateFindings(findings, scanner, component, o.findings)
            /\ allFindings' = allFindings \o o.findings
            /\ scannerRuns' = UpdateScannerResult(scannerRuns, id, "completed",
                                                  Len(o.findings), None)
            /\ job' = LogStep(job, tracker, "Scanner findings")

\* scanner.scan(...) of a universal scanner returns or raises
UniversalReturn ==
    /\ ~killed /\ pc = "u_scan"
    /\ \E o \in env.outcomes : AfterScan(o, UniversalScanners[uIdx + 1], 0)
    /\ uIdx' = uIdx + 1
    /\ pc' = "u_loop"
    /\ UNCHANGED <<tracker, ip, cIdx, sIdx, lastCall, lastId, ScanUnchanged>>

\* for comp_idx, comp in enumerate(components): self._ensure_not_cancelled();
\* a component without scanners is skipped; after the last one the stage returns
ComponentLoop ==
    /\ ~killed /\ pc = "c_loop"
    /\ IF cIdx < NumComponents
       THEN IF IsCancelled
            THEN pc' = CancelledTo("c_loop") /\ UNCHANGED <<ip, cIdx, sIdx>>
            ELSE IF CurrentLanguageScanners = <<>>
                 THEN pc' = pc /\ cIdx' = cIdx + 1 /\ UNCHANGED <<ip, sIdx>>
                 ELSE pc' = "l_loop" /\ sIdx' = 0 /\ UNCHANGED <<ip, cIdx>>
       ELSE pc' = "run" /\ ip' = ip + 1 /\ UNCHANGED <<cIdx, sIdx>>
    /\ UNCHANGED <<job, tracker, uIdx, scannerRuns, allFindings, findings, outcomeLog, lastCall,
                   lastId, ScanUnchanged>>

\* for scanner in scanners: self._ensure_not_cancelled()
LanguageLoop ==
    /\ ~killed /\ pc = "l_loop"
    /\ IF sIdx < Len(CurrentLanguageScanners)
       THEN pc' = (IF IsCancelled THEN CancelledTo("l_loop") ELSE "l_update")
            /\ cIdx' = cIdx
       ELSE pc' = "c_loop" /\ cIdx' = cIdx + 1
    /\ UNCHANGED <<job, tracker, ip, uIdx, sIdx, scannerRuns, allFindings, findings,
                   outcomeLog, lastCall, lastId, ScanUnchanged>>

\* self.status.update("scanning", f"Running {scanner_name} on {comp['name']}", progress)
LanguageUpdate ==
    /\ ~killed /\ pc = "l_update"
    /\ LET progress == LanguageProgress(cIdx, NumComponents) IN
       /\ tracker' = TrackerUpdate("scanning", progress)
       /\ job' = UpdateJobStatus(job, "scanning", "Running scanner on component",
                                 progress, None)
    /\ pc' = "l_start"
    /\ UNCHANGED <<ip, scanVars, ScanUnchanged>>

\* db.create_scanner_result(..., component_id) and the call of scanner.scan(...)
LanguageStart ==
    /\ ~killed /\ pc = "l_start"
    /\ scannerRuns' = CreateScannerResult(scannerRuns, CurrentLanguageScanners[sIdx + 1],
                                          cIdx + 1)
    /\ pc' = "l_scan"
    /\ UNCHANGED <<job, tracker, ip, uIdx, cIdx, sIdx, allFindings, findings, outcomeLog, lastCall,
                   lastId, ScanUnchanged>>

\* scanner.scan(...) of a language scanner returns or raises
LanguageReturn ==
    /\ ~killed /\ pc = "l_scan"
    /\ \E o \in env.outcomes : AfterScan(o, CurrentLanguageScanners[sIdx + 1], cIdx + 1)
    /\ sIdx' = sIdx + 1
    /\ pc' = "l_loop"
    /\ UNCHANGED <<tracker, ip, uIdx, cIdx, lastCall, lastId, ScanUnchanged>>

\* ------------------------------------------- engine.py: _run_llm_analysis
Workers == 1..MaxCreds
Tasks == 1..MaxFiles

\* the component a file belongs to (files are dealt to the components in turn)
FileComponent(t) == ((t - 1) % NumComponents) + 1

SeqOfSet(S) ==
    LET RECURSIVE Build(_, _)
        Build(n, acc) == IF n > MaxFiles THEN acc
                         ELSE Build(n + 1, IF n \in S THEN Append(acc, n) ELSE acc)
    IN Build(1, <<>>)

\* a triage that drops the flagged files
TriageDrop(n, skip) == SeqOfSet((1..n) \ skip)

\* file_jobs after the name triage: keep_jobs + skip_jobs
TriageOrder(n, skip) == SeqOfSet((1..n) \ skip) \o SeqOfSet((1..n) \cap skip)

WorkerPerClient(clients, total) == clients

\* worker_count = max(1, min(len(self.ollama_clients), total_llm_files))
WorkerCount(clients, total) == Max(1, Min(clients, total))

PillsFirst(jobs, n) == [i \in 1..n |-> Pill] \o jobs

\* queue.put_nowait(job) for every job, then one queue.put_nowait(None) per worker
FillQueue(jobs, n) == jobs \o [i \in 1..n |-> Pill]

\* the analyzing progress spread over 50 points
AnalyzingProgressWide(processed, total) == 50 + (processed * 50) \div total

\* progress = 50 + int((processed_files / total_llm_files) * 35)
AnalyzingProgress(processed, total) == 50 + (processed * 35) \div total

\* no worker is inside a stretch of code without an await: the event loop is
\* free to run another coroutine
LoopFree == \A w \in Workers : wpc[w] # "sync"

NoWorkers == [w \in Workers |-> "none"]

LlmUnchanged == <<exc, result, killed, stopVars, env, scanVars, laneVars, clientVars, disk, reports, keyring, stream, triage>>

\* run() calls _run_llm_analysis: _ensure_not_cancelled(), the code files are
\* collected, with none the stage returns, else the name triage is awaited
RunLlmAnalysis ==
    /\ At("llm")
    /\ IF IsCancelled
       THEN pc' = CancelledTo("llm") /\ ip' = ip
       ELSE IF env.files = 0
            THEN pc' = "run" /\ ip' = ip + 1
            ELSE pc' = "llm_triage" /\ ip' = ip
    /\ fileJobs' = SeqOfSet(1..env.files)
    /\ job' = IF IsCancelled THEN job
              ELSE LogStep(job, tracker, "LLM Analysis: Found code files")
    /\ UNCHANGED <<tracker, queue, unfinished, workerCount, wpc, wtask,
                   processedFiles, lastProgress, sumIdx, summaries, analysisLog, components, summaryLog, startCount,
                   doneCount, pills, LlmUnchanged>>

\* the triage returns the paths to move to the back (none when it failed); then
\* status.update("analyzing", ..., progress=50), the queue is filled, the
\* workers are created and run() awaits queue.join()
LlmStartWorkers ==
    /\ ~killed /\ pc = "llm_triage"
    /\ \E skip \in env.triage :
          LET jobs == TriageOrder(env.files, skip)
              n == WorkerCount(env.creds, Len(jobs))
          IN /\ fileJobs' = jobs
             /\ workerCount' = n
             /\ queue' = FillQueue(jobs, n)
             /\ unfinished' = Len(jobs) + n
             /\ wpc' = [w \in Workers |-> IF w <= n THEN "get" ELSE "none"]
             /\ job' = UpdateJobStatus(
                           IF skip = {}
                           THEN LogStep(job, tracker, "LLM file triage")
                           ELSE LogStep(LogStep(job, tracker, "LLM file triage"), tracker,
                                        "LLM file triage flagged files"),
                           "analyzing", "Analyzing code files with workers", 50, None)
    /\ tracker' = TrackerUpdate("analyzing", 50)
    /\ processedFiles' = 0
    /\ lastProgress' = 50
    /\ pc' = "llm_join"
    /\ UNCHANGED <<ip, wtask, sumIdx, summaries, analysisLog, components, summaryLog, startCount, doneCount, pills,
                   LlmUnchanged>>

\* a worker that gives up its own task only
DropOwnTask(q, n) == [queue |-> Tail(q), unfinished |-> n - 1]

\* a worker that leaves its item without task_done()
TaskNotDone(n) == n

\* queue.task_done(): one unfinished item less
TaskDone(n) == n - 1

\* the worker saw the job cancelled: task_done() for the task it holds, then
\* get_nowait() and task_done() for every item left, pills included
DrainOnCancel(q, n) == [queue |-> <<>>, unfinished |-> n - Len(q)]

\* job = await queue.get() and what follows up to the next await
WorkerGet(w) ==
    /\ ~killed /\ pc \in {"llm_join", "llm_await"}
    /\ wpc[w] = "get" /\ queue # <<>> /\ LoopFree
    /\ LET item == Head(queue) IN
       IF item = Pill
       THEN /\ queue' = Tail(queue)
            /\ unfinished' = TaskDone(unfinished)
            /\ wpc' = [wpc EXCEPT ![w] = "done"]
            /\ pills' = [pills EXCEPT ![w] = @ + 1]
            /\ UNCHANGED <<wtask, startCount, job>>
       ELSE IF IsCancelled
            THEN /\ queue' = DrainOnCancel(queue, unfinished).queue
                 /\ unfinished' = DrainOnCancel(queue, unfinished).unfinished
                 /\ wpc' = [wpc EXCEPT ![w] = "done"]
                 /\ UNCHANGED <<wtask, startCount, pills, job>>
            ELSE /\ queue' = Tail(queue)
                 /\ wtask' = [wtask EXCEPT ![w] = item]
                 /\ startCount' = [startCount EXCEPT ![item] = @ + 1]
                 /\ \E short \in BOOLEAN :
                       wpc' = [wpc EXCEPT ![w] = IF short THEN "sync" ELSE "inflight"]
                 /\ job' = LogStep(job, tracker, "Analyzing code file")
                 /\ UNCHANGED <<unfinished, pills>>
    /\ UNCHANGED <<tracker, pc, ip, fileJobs, workerCount, processedFiles,
                   lastProgress, sumIdx, summaries, analysisLog, components, summaryLog, doneCount, LlmUnchanged>>

\* the domain of a finding's severity
Severities == {"critical", "high", "medium", "low", "info"}

\* a key the model left out of an issue
Missing == "MISSING"

\* one element of security_issues or quality_issues: a dict with the severity
\* and title the model gave, or something that is not a dict
Issue(severity, title) == [dict |-> TRUE, severity |-> severity, title |-> title]
NotADict == [dict |-> FALSE, severity |-> Missing, title |-> Missing]

\* issue.get(key, default)
GetOr(value, default) == IF value = Missing THEN default ELSE value

\* the path of the file of a task
FilePath(t) == "file" \o ToString(t) \o ".py"

\* the arguments of db.create_finding(scanner="llm", ...) for one issue: no
\* rule_id and no line are passed
LlmFinding(issue, path, default_severity, default_title) ==
    [rule_id |-> None,
     title |-> GetOr(issue.title, default_title),
     file_path |-> path,
     line_start |-> NoLine,
     severity |-> GetOr(issue.severity, default_severity)]

\* "for issue in analysis.get(...): db.create_finding(...)": st is the table, the
\* last call and its result so far; issue.get on something that is not a dict
\* raises and ends the loop
RECURSIVE StoreIssues(_, _, _, _, _, _)
StoreIssues(st, component, path, issues, default_severity, default_title) ==
    IF issues = <<>> \/ st.raised THEN st
    ELSE IF ~Head(issues).dict THEN [st EXCEPT !.raised = TRUE]
    ELSE LET f == LlmFinding(Head(issues), path, default_severity, default_title)
             r == CreateFinding(st.store, "llm", component, f)
         IN StoreIssues([store |-> r.store, call |-> <<"llm", f>>, id |-> r.id,
                         raised |-> FALSE],
                        component, path, Tail(issues), default_severity, default_title)

\* how the try block of the worker can end for one file: the content is too
\* short to analyse; get_file_content or analyze_code raises; analyze_code
\* returns a result with its two issue lists
TooShort == [kind |-> "short", security_issues |-> <<>>, quality_issues |-> <<>>]
AnalysisRaises == [kind |-> "raises", security_issues |-> <<>>, quality_issues |-> <<>>]
Analysis(security, quality) ==
    [kind |-> "returned", security_issues |-> security, quality_issues |-> quality]

\* an analysis that reports no issue
CalmAnalyses == {Analysis(<<>>, <<>>)}

\* analyses that report no issue or raise
QuietAnalyses == {Analysis(<<>>, <<>>), AnalysisRaises}

\* analyses that report issues: severities inside and outside the domain or
\* left out, a repeated title, an element that is not a dict
IssueAnalyses ==
    {Analysis(<<>>, <<>>),
     AnalysisRaises,
     Analysis(<<Issue("high", "SQL injection")>>, <<Issue(Missing, Missing)>>),
     Analysis(<<Issue("urgent", "Hardcoded secret"), Issue("low", "Hardcoded secret")>>,
              <<Issue("HIGH", "Long function")>>),
     Analysis(<<Issue(Missing, "Weak hash"), NotADict, Issue("high", "Unreached")>>,
              <<Issue("info", "Long function")>>)}

\* a worker that drops the result of an analysis
StoreNothing(store, call, id, t, a) ==
    [store |-> store, call |-> call, id |-> id, raised |-> FALSE]

\* the two loops of the worker over security_issues and quality_issues
StoreAnalysis(store, call, id, t, a) ==
    LET st0 == [store |-> store, call |-> call, id |-> id, raised |-> FALSE]
        st1 == StoreIssues(st0, FileComponent(t), FilePath(t), a.security_issues,
                           "medium", "Security Issue")
    IN StoreIssues(st1, FileComponent(t), FilePath(t), a.quality_issues,
                   "low", "Quality Issue")

\* a try statement without its except clause: the exception ends the worker
AfterTryUncaught(raised) == IF raised THEN "done" ELSE "get"

\* where the worker is after the try statement: "except Exception" logs a
\* warning, so however the try block ended the loop goes round again
AfterTry(raised) == "get"

\* a counter written from a value read before another worker's increment
CountFileOnce(processed) == Max(processed, 1)

\* processed_files += 1
CountFile(processed) == processed + 1

\* the analysis of the held task ends (the content was too short to analyse, it
\* raises, or its result arrives and the summary and findings are recorded); the
\* finally block counts the file, pushes the progress forward and calls
\* task_done()
WorkerFinish(w) ==
    /\ ~killed /\ pc \in {"llm_join", "llm_await"}
    /\ wpc[w] = "sync" \/ (wpc[w] = "inflight" /\ LoopFree)
    /\ LET t == wtask[w]
           processed == CountFile(processedFiles)
           progress == AnalyzingProgress(processed, Len(fileJobs))
       IN /\ \E a \in (IF wpc[w] = "sync" THEN {TooShort} ELSE env.analyses) :
                LET st == StoreAnalysis(findings, lastCall, lastId, t, a) IN
                /\ summaries' = IF a.kind = "returned"
                                THEN [summaries EXCEPT ![FileComponent(t)] = @ \cup {t}]
                                ELSE summaries
                /\ findings' = st.store
                /\ lastCall' = st.call
                /\ lastId' = st.id
                /\ analysisLog' = [analysisLog EXCEPT ![t] =
                                      Append(@, [outcome |-> a, cancelled |-> IsCancelled])]
                /\ wpc' = [wpc EXCEPT ![w] = AfterTry(a.kind = "raises" \/ st.raised)]
          /\ processedFiles' = processed
          /\ doneCount' = [doneCount EXCEPT ![t] = @ + 1]
          /\ IF progress > lastProgress
             THEN /\ lastProgress' = progress
                  /\ tracker' = TrackerUpdate("analyzing", progress)
                  /\ job' = UpdateJobStatus(job, "analyzing", "Analyzing code files...",
                                            progress, None)
             ELSE UNCHANGED <<lastProgress, tracker, job>>
    /\ unfinished' = TaskDone(unfinished)
    /\ UNCHANGED <<pc, ip, fileJobs, queue, workerCount, wtask, sumIdx, startCount, components, summaryLog,
                   pills, exc, result, killed, stopVars, env, laneVars, clientVars, disk, reports, keyring, stream, triage,
                   uIdx, cIdx, sIdx, scannerRuns, allFindings, outcomeLog>>

\* await queue.join() returns once every item put has had its task_done()
QueueJoin ==
    /\ ~killed /\ pc = "llm_join" /\ LoopFree
    /\ unfinished = 0
    /\ pc' = "llm_await"
    /\ UNCHANGED <<job, tracker, ip, llmVars, LlmUnchanged>>

\* for worker_task in workers: await worker_task
AwaitWorkers ==
    /\ ~killed /\ pc = "llm_await"
    /\ \A w \in Workers : wpc[w] \in {"none", "done"}
    /\ pc' = "sum_loop"
    /\ sumIdx' = 0
    /\ job' = LogStep(job, tracker, "LLM Analysis complete")
    /\ UNCHANGED <<tracker, ip, fileJobs, queue, unfinished, workerCount, wpc, wtask,
                   processedFiles, lastProgress, summaries, analysisLog, components, summaryLog, startCount, doneCount, pills,
                   LlmUnchanged>>

\* for comp in components: self._ensure_not_cancelled(); a component without
\* file summaries is skipped, else summarize_component is awaited
SummaryLoop ==
    /\ ~killed /\ pc = "sum_loop"
    /\ IF sumIdx < NumComponents
       THEN IF IsCancelled
            THEN pc' = CancelledTo("sum_loop") /\ UNCHANGED <<ip, sumIdx, job>>
            ELSE IF summaries[sumIdx + 1] = {}
                 THEN pc' = pc /\ sumIdx' = sumIdx + 1 /\ ip' = ip /\ job' = job
                 ELSE /\ pc' = "sum_wait" /\ UNCHANGED <<ip, sumIdx>>
                      /\ job' = LogStep(job, tracker, "Generating summary")
       ELSE pc' = "run" /\ ip' = ip + 1 /\ sumIdx' = sumIdx /\ job' = job
    /\ UNCHANGED <<tracker, fileJobs, queue, unfinished, workerCount, wpc, wtask,
                   processedFiles, lastProgress, summaries, analysisLog, components, summaryLog, startCount, doneCount, pills,
                   LlmUnchanged>>


\* how the chat call of summarize_component can end: an exception from chat,
\* a response that is not JSON, a JSON value that is not an object, an object
\* without health_score, an object with one
SummaryOutcomes == {"chat_error", "invalid_json", "not_an_object", "no_score", "scored"}

\* the summary call failed: the chat call raised or its response is not valid JSON
SummaryFailed(o) == o \in {"chat_error", "invalid_json"}

\* the health score of a well-formed summary
ModelScore == 80

\* the default of comp_summary.get("health_score", 50) and the score of the
\* dict summarize_component returns from its except clause
DefaultScore == 50

\* OllamaCloudClient.summarize_component: what it returns for each outcome of
\* its chat call; its own except clause turns every failure into a dict
SummarizeComponent(o) ==
    CASE SummaryFailed(o) ->
            [object |-> TRUE, summary |-> "Summary generation failed", health_score |-> DefaultScore]
      [] o = "not_an_object" ->
            [object |-> FALSE, summary |-> "", health_score |-> NoScore]
      [] o = "no_score" ->
            [object |-> TRUE, summary |-> "A component", health_score |-> NoScore]
      [] OTHER ->
            [object |-> TRUE, summary |-> "A component", health_score |-> ModelScore]

\* Database.update_component: every column keeps its value when the argument is None
UpdateComponent(row, status, summary, health_score) ==
    [status |-> Coalesce(status, row.status),
     summary |-> IF summary = None THEN row.summary ELSE summary,
     health_score |-> CoalesceInt(health_score, row.health_score)]

\* the try block of the summary loop and its except clause: comp_summary.get on
\* something that is not a dict raises
StoreSummary(row, comp_summary) ==
    IF comp_summary.object
    THEN UpdateComponent(row, "completed", comp_summary.summary,
                         CoalesceInt(comp_summary.health_score, DefaultScore))
    ELSE UpdateComponent(row, "completed", None, NoScore)

\* summarize_component returns; the component is updated and the loop goes on
SummaryReturn ==
    /\ ~killed /\ pc = "sum_wait"
    /\ \E o \in env.summary_outcomes :
          /\ components' = [components EXCEPT ![sumIdx + 1] =
                               StoreSummary(@, SummarizeComponent(o))]
          /\ summaryLog' = [summaryLog EXCEPT ![sumIdx + 1] = o]
    /\ sumIdx' = sumIdx + 1
    /\ pc' = "sum_loop"
    /\ UNCHANGED <<job, tracker, ip, fileJobs, queue, unfinished, workerCount, wpc, wtask,
                   processedFiles, lastProgress, summaries, analysisLog, startCount,
                   doneCount, pills, LlmUnchanged>>

\* ------------------------------------------- engine.py: _generate_report
\* run() calls _generate_report: _ensure_not_cancelled(), then the executive
\* summary is awaited
RunGenerateReport ==
    /\ At("report")
    /\ pc' = IF IsCancelled THEN CancelledTo("report") ELSE "report_wait"
    /\ job' = IF IsCancelled THEN job
              ELSE LogStep(job, tracker, "Generating executive summary...")
    /\ UNCHANGED <<tracker, ip, exc, result, killed, stopVars, env, stageVars, laneVars, clientVars, disk, reports, keyring, stream, triage>>

\* Database.create_report: one more row in table reports
CreateReport(n) == n + 1

\* the executive summary arrives or fails; the report is stored
ReportReturn ==
    /\ ~killed /\ pc = "report_wait"
    /\ pc' = "run"
    /\ ip' = ip + 1
    /\ reports' = CreateReport(reports)
    /\ job' = LogStep(job, tracker, "Report generated")
    /\ UNCHANGED <<tracker, exc, result, killed, stopVars, env, stageVars, laneVars, clientVars, disk,
                   keyring, stream, triage>>

\* ------------------------------------------------------------ api/main.py
\* stop_job, up to the revoke: reads the job row, refuses a finished job
StopJobRead ==
    /\ stopPc = "idle" /\ stopsLeft > 0
    /\ stopsLeft' = stopsLeft - 1
    /\ IF job.status \in Terminal
       THEN UNCHANGED <<stopPc, stopSaved, revokePending>>
       ELSE /\ stopPc' = "write"
            /\ stopSaved' = job.progress
            /\ \E revoked \in BOOLEAN : revokePending' = (revokePending \/ revoked)
    /\ UNCHANGED <<job, tracker, runVars, flagEverSet, env, stageVars, laneVars, clientVars, disk, reports, keyring, stream, triage>>

\* stop_job, the write: status cancelled with the progress read before
StopJobWrite ==
    /\ stopPc = "write"
    /\ job' = UpdateJobStatus(job, "cancelled", "Job stopped by user",
                              stopSaved, "Job was cancelled by user")
    /\ stopPc' = "idle"
    /\ flagEverSet' = TRUE
    /\ UNCHANGED <<tracker, runVars, stopSaved, stopsLeft, revokePending, env, stageVars, laneVars, clientVars, disk, reports, keyring, stream, triage>>

\* celery_app.control.revoke(task_id, terminate=True): the worker process
\* running the engine is signalled some time after the request
CeleryTerminate ==
    /\ revokePending /\ ~killed /\ pc # "returned"
    /\ killed' = TRUE
    /\ revokePending' = FALSE
    /\ UNCHANGED <<job, tracker, pc, ip, exc, result, stopPc, stopSaved, stopsLeft,
                   flagEverSet, env, stageVars, laneVars, clientVars, disk, reports, keyring, stream, triage>>

\* ------------------------------------------------- llm/ollama_client.py
MaxCallers == 3
MaxSends == 2
MaxTime == 6
\* settings.llm_request_delay, in clock ticks
LlmRequestDelay == 2

Callers == 1..MaxCallers
Credentials == {"key-a", "key-b"}

\* the api_key of the client each caller uses: callers 1, 3, ... share one
CallerCredential(c) == IF c % 2 = 1 THEN "key-a" ELSE "key-b"

LockKeyDefault(c) == "default"

\* self._lock_key = self.api_key or "default" (an empty api_key is refused)
LockKey(c) == CallerCredential(c)

LockKeys == Credentials \cup {"default"}

GetLockFresh(registry, key, created) == created + 1

\* _get_lock: the lock registered for the key, a new one when there is none;
\* lock objects are numbered in creation order, 0 is "no entry"
GetLock(registry, key, created) ==
    IF registry[key] = 0 THEN created + 1 ELSE registry[key]

RateLimitDelayNone(elapsed) == 0

\* _wait_for_rate_limit: the sleep, min_delay - elapsed when elapsed < min_delay
RateLimitDelay(elapsed) ==
    IF elapsed < LlmRequestDelay THEN LlmRequestDelay - elapsed ELSE 0

\* _last_request_times[self._lock_key] = time.time()
RecordRequest(c) ==
    /\ lastRequestTimes' = [lastRequestTimes EXCEPT ![LockKey(c)] = now]
    /\ sentLog' = [sentLog EXCEPT ![CallerCredential(c)] = Append(@, now)]

LaneUnchanged == <<jobVars, runVars, stopVars, env, stageVars, clientVars, disk, reports, keyring, stream, triage>>

\* _chat_once: self._get_lock(), then "async with" starts to acquire it
ChatOnceEnter(c) ==
    /\ cpc[c] = "idle"
    /\ Len(sentLog[CallerCredential(c)]) < MaxSends
    /\ LET lock == GetLock(locks, LockKey(c), Len(lockHolder)) IN
       /\ cLock' = [cLock EXCEPT ![c] = lock]
       /\ locks' = [locks EXCEPT ![LockKey(c)] = lock]
       /\ lockHolder' = IF lock > Len(lockHolder) THEN Append(lockHolder, 0) ELSE lockHolder
    /\ cpc' = [cpc EXCEPT ![c] = "acquire"]
    /\ UNCHANGED <<lastRequestTimes, now, cWake, sentLog, LaneUnchanged>>

\* asyncio.Lock.acquire returns once the lock is free
LockAcquire(c) ==
    /\ cpc[c] = "acquire"
    /\ lockHolder[cLock[c]] = 0
    /\ lockHolder' = [lockHolder EXCEPT ![cLock[c]] = c]
    /\ cpc' = [cpc EXCEPT ![c] = "limit"]
    /\ UNCHANGED <<locks, lastRequestTimes, now, cLock, cWake, sentLog, LaneUnchanged>>

\* _wait_for_rate_limit up to its await: sleep when the lane was used less than
\* min_delay ago, else record the time and send
WaitForRateLimit(c) ==
    /\ cpc[c] = "limit"
    /\ LET elapsed == now - lastRequestTimes[LockKey(c)]
           delay == RateLimitDelay(elapsed)
       IN IF elapsed < LlmRequestDelay
          THEN /\ cWake' = [cWake EXCEPT ![c] = now + delay]
               /\ cpc' = [cpc EXCEPT ![c] = "sleep"]
               /\ UNCHANGED <<lastRequestTimes, sentLog>>
          ELSE /\ RecordRequest(c)
               /\ cpc' = [cpc EXCEPT ![c] = "send"]
               /\ UNCHANGED cWake
    /\ UNCHANGED <<locks, lockHolder, now, cLock, LaneUnchanged>>

\* asyncio.sleep returns, not before its delay has passed; the time is recorded
\* and the request is sent
SleepReturn(c) ==
    /\ cpc[c] = "sleep"
    /\ now >= cWake[c]
    /\ RecordRequest(c)
    /\ cpc' = [cpc EXCEPT ![c] = "send"]
    /\ UNCHANGED <<locks, lockHolder, now, cLock, cWake, LaneUnchanged>>

\* client.post returns or raises; leaving "async with" releases the lock
ChatOnceLeave(c) ==
    /\ cpc[c] = "send"
    /\ lockHolder' = [lockHolder EXCEPT ![cLock[c]] = 0]
    /\ cpc' = [cpc EXCEPT ![c] = "idle"]
    /\ UNCHANGED <<locks, lastRequestTimes, now, cLock, cWake, sentLog, LaneUnchanged>>

\* the clock advances
Tick ==
    /\ now < MaxTime
    /\ now' = now + 1
    /\ UNCHANGED <<locks, lockHolder, lastRequestTimes, cpc, cLock, cWake, sentLog,
                   LaneUnchanged>>

\* ------------------------------------ llm/ollama_client.py: JSON helpers
\* A response text is a sequence of lexical tokens: "p" a word of prose, "f" a
\* code fence (```), "b" a markdown bold marker (**), "kv" a "key": scalar
\* pair, "n" a JSON scalar, and the JSON punctuation.
Tokens == {"p", "f", "b", "kv", "n", ",", "{", "}", "[", "]"}

\* the content field of the server's reply when it is JSON null (Python None)
NullContent == <<"null">>

MaxTextLen == 2

\* candidate paths of one triage call
MaxPaths == 4
\* the nesting depth at which json.loads raises RecursionError, scaled down
MaxNesting == 2

RECURSIVE TextsOfLen(_)
TextsOfLen(n) ==
    IF n = 0 THEN {<<>>}
    ELSE {Append(t, k) : t \in TextsOfLen(n - 1), k \in Tokens}

Texts == UNION {TextsOfLen(n) : n \in 0..MaxTextLen}

\* text.find(token) + 1, 0 when absent
Find(text, token) ==
    LET S == {i \in 1..Len(text) : text[i] = token}
    IN IF S = {} THEN 0 ELSE CHOOSE i \in S : \A j \in S : i <= j

\* text.rfind(token) + 1, 0 when absent
RFind(text, token) ==
    LET S == {i \in 1..Len(text) : text[i] = token}
    IN IF S = {} THEN 0 ELSE CHOOSE i \in S : \A j \in S : i >= j

\* _extract_json_payload: the inside of the first fenced block, else from the
\* first "{" to the last "}", else from the first "[" to the last "]", else
\* the text
ExtractJsonPayload(text) ==
    IF text = NullContent \/ text = <<>> THEN <<>>
    ELSE LET f1 == Find(text, "f")
             rest == SubSeq(text, f1 + 1, Len(text))
             f2 == IF f1 = 0 THEN 0 ELSE Find(rest, "f")
         IN IF f2 # 0 THEN SubSeq(rest, 1, f2 - 1)
            ELSE IF Find(text, "{") # 0 /\ RFind(text, "}") > Find(text, "{")
                 THEN SubSeq(text, Find(text, "{"), RFind(text, "}"))
                 ELSE IF Find(text, "[") # 0 /\ RFind(text, "]") > Find(text, "[")
                      THEN SubSeq(text, Find(text, "["), RFind(text, "]"))
                      ELSE text

RECURSIVE DropTrailingCommas(_, _)
DropTrailingCommas(c, i) ==
    IF i > Len(c) THEN <<>>
    ELSE (IF c[i] = "," /\ i < Len(c) /\ c[i + 1] \in {"}", "]"} THEN <<>> ELSE <<c[i]>>)
            \o DropTrailingCommas(c, i + 1)

SanitizeNothing(text) == text

\* _sanitize_json_text: bold markers and backticks are deleted, then every
\* comma that stands before a closing brace or bracket
SanitizeJsonText(text) ==
    DropTrailingCommas(SelectSeq(text, LAMBDA k : k \notin {"b", "f"}), 1)

\* json.loads as a recursive-descent parser: each Parse operator returns the
\* position after what it parsed, 0 for a syntax error (json.JSONDecodeError),
\* -1 when the nesting is too deep (RecursionError)
RECURSIVE ParseValue(_, _, _)
RECURSIVE ParseElements(_, _, _)
RECURSIVE ParseMembers(_, _)

ParseMembers(s, i) ==
    IF i <= Len(s) /\ s[i] = "kv"
    THEN IF i + 1 <= Len(s) /\ s[i + 1] = "}" THEN i + 2
         ELSE IF i + 1 <= Len(s) /\ s[i + 1] = "," THEN ParseMembers(s, i + 2)
              ELSE 0
    ELSE 0

ParseElements(s, i, d) ==
    LET j == ParseValue(s, i, d) IN
    IF j <= 0 THEN j
    ELSE IF j <= Len(s) /\ s[j] = "]" THEN j + 1
         ELSE IF j <= Len(s) /\ s[j] = "," THEN ParseElements(s, j + 1, d)
              ELSE 0

ParseValue(s, i, d) ==
    IF i > Len(s) THEN 0
    ELSE IF s[i] = "n" THEN i + 1
    ELSE IF s[i] \in {"{", "["} /\ d >= MaxNesting THEN -1
    ELSE IF s[i] = "{"
         THEN IF i + 1 <= Len(s) /\ s[i + 1] = "}" THEN i + 2 ELSE ParseMembers(s, i + 1)
    ELSE IF s[i] = "["
         THEN IF i + 1 <= Len(s) /\ s[i + 1] = "]" THEN i + 2
              ELSE ParseElements(s, i + 1, d + 1)
    ELSE 0

\* json.loads(candidate): a dict, another JSON value, or the exception raised
JsonLoads(s) ==
    LET j == ParseValue(s, 1, 0) IN
    IF j = -1 THEN "RecursionError"
    ELSE IF j = Len(s) + 1 THEN (IF s[1] = "{" THEN "dict" ELSE "other")
    ELSE "JSONDecodeError"

Parsed(value, method) == [raises |-> FALSE, ok |-> TRUE, value |-> value, method |-> method]
NotParsed == [raises |-> FALSE, ok |-> FALSE, value |-> <<>>, method |-> ""]
ParseRaises == [raises |-> TRUE, ok |-> FALSE, value |-> <<>>, method |-> ""]

\* parse_llm_json_response: (parsed, method), or the exception json.loads
\* raised that is not a JSONDecodeError
ParseLlmJsonResponse(text) ==
    LET payload == ExtractJsonPayload(text)
        sanitized == SanitizeJsonText(payload)
    IN IF payload = <<>> THEN NotParsed
       ELSE IF JsonLoads(payload) = "RecursionError" THEN ParseRaises
       ELSE IF JsonLoads(payload) = "dict" THEN Parsed(payload, "direct")
       ELSE IF JsonLoads(sanitized) = "RecursionError" THEN ParseRaises
       ELSE IF JsonLoads(sanitized) = "dict" THEN Parsed(sanitized, "sanitized")
       ELSE NotParsed

\* the test's response: prose, a fenced object with a trailing comma, prose
TrailingCommaFenced == <<"p", "f", "{", "kv", ",", "kv", ",", "}", "f", "p">>

\* a response with bold markers around a key
BoldKeys == <<"{", "b", "kv", "b", ",", "kv", "}">>

\* --------------------------- llm/ollama_client.py: chat and analyze_code
\* fallback_models in chat
FallbackModels == <<"deepseek-v3.2:cloud", "gpt-oss:120b-cloud", "kimi-k2-thinking:cloud">>

\* self.model: a model outside the fallback list, and one inside it
Models == {"custom-model", "gpt-oss:120b-cloud"}

AllFallbacks(use_model) == FallbackModels

\* for fallback in fallback_models: if fallback != use_model
FallbackCandidates(use_model) == SelectSeq(FallbackModels, LAMBDA m : m # use_model)

\* stop=stop_after_attempt(2)
StopAfterAttempt == 2

RetryAlways(e) == TRUE

\* retry=retry_if_exception_type((httpx.TimeoutException, httpx.ConnectError))
ShouldRetry(e) == e \in {"TimeoutException", "ConnectError"}

\* e.response.status_code == 401 (or 404) and allow_fallback
HandledStatus(e, allow_fallback) == allow_fallback /\ e \in {"HTTP401", "HTTP404"}

\* how a request of the primary model can fail: response.raise_for_status(),
\* httpx exceptions, anything else
PrimaryFailures ==
    {"HTTP401", "HTTP404", "HTTP500", "TimeoutException", "ConnectError", "OtherError"}

\* how a request of a fallback model can fail
FallbackFailures == {"HTTP401", "TimeoutException", "ConnectError"}

\* a response nested deeper than json.loads can follow
DeepNested == [i \in 1..(MaxNesting + 1) |-> "["]

\* what the server can answer to the analysis request
Responses == Texts \cup {TrailingCommaFenced, BoldKeys, DeepNested, NullContent}

\* what the server can answer to the repair request
RepairReplies ==
    {t \in Texts : Len(t) <= 2} \cup {TrailingCommaFenced, DeepNested, NullContent}

Replies(purpose) == IF purpose = "analysis" THEN Responses ELSE RepairReplies

Request(kind, model, outcome) == [kind |-> kind, model |-> model, outcome |-> outcome]

NoCall ==
    [purpose |-> "", model |-> "", allow_fallback |-> FALSE, attempt |-> 0, next |-> 0,
     error |-> ""]

\* chat(messages, temperature, model, allow_fallback) is entered
ChatCall(purpose, model, allow_fallback) ==
    [purpose |-> purpose, model |-> model, allow_fallback |-> allow_fallback,
     attempt |-> 1, next |-> 0, error |-> ""]

ChatEnded(purpose, outcome) == [purpose |-> purpose, outcome |-> outcome]

\* response[:1000]
RawResponseLimit == 1000

NoResult == [kind |-> "none"]

\* an exception leaves analyze_code
Raised(e) == [kind |-> "raised", error |-> e]

\* the dict analyze_code returns when chat raised
ChatFailed(e) == [kind |-> "chat_failed", purpose |-> "Unknown", error |-> e]

\* the dict analyze_code returns when nothing could be parsed
ParseFailed(r) ==
    [kind |-> "parse_failed",
     parse_error |-> "LLM JSON parsing failed",
     raw_response |-> SubSeq(r, 1, Min(Len(r), RawResponseLimit)),
     security_issues |-> <<>>,
     quality_issues |-> <<>>]

\* self._normalize_analysis_result(parsed)
Normalized(value, method) == [kind |-> "parsed", method |-> method, value |-> value]

\* analyze_code after "response = await self.chat(...)" returned: the local
\* parses, and with both failed the way to _repair_json_response
AnalysisReturned(text) ==
    LET p == ParseLlmJsonResponse(text) IN
    /\ response' = text
    /\ chatEnd' = ChatEnded("analysis", "ok")
    /\ chatCall' = NoCall
    /\ IF p.raises THEN aPc' = "done" /\ aResult' = Raised("RecursionError")
       ELSE IF p.ok THEN aPc' = "done" /\ aResult' = Normalized(p.value, p.method)
       ELSE aPc' = "repair" /\ aResult' = aResult
    /\ UNCHANGED repairCalls

\* _repair_json_response after its chat returned: the parse of the reply is
\* outside its try block
RepairReturned(text) ==
    LET p == ParseLlmJsonResponse(text) IN
    /\ chatEnd' = ChatEnded("repair", "ok")
    /\ chatCall' = NoCall
    /\ aPc' = "done"
    /\ aResult' = IF p.raises THEN Raised("RecursionError")
                  ELSE IF p.ok THEN Normalized(p.value, "repair")
                  ELSE ParseFailed(response)
    /\ UNCHANGED <<response, repairCalls>>

ChatReturned(text) ==
    IF chatCall.purpose = "analysis" THEN AnalysisReturned(text) ELSE RepairReturned(text)

\* an exception leaves chat: analyze_code returns the failure dict,
\* _repair_json_response returns None and analyze_code the parse-failure dict
ChatRaised(e) ==
    /\ chatEnd' = ChatEnded(chatCall.purpose, e)
    /\ chatCall' = NoCall
    /\ aPc' = "done"
    /\ aResult' = IF chatCall.purpose = "analysis" THEN ChatFailed(e)
                  ELSE ParseFailed(response)
    /\ UNCHANGED <<response, repairCalls>>

\* the fallback loop raising the error of its last attempt
RaiseLastError(original, last) == last

\* the bare "raise" after the fallback loops, inside "except
\* httpx.HTTPStatusError as e": the error of the requested model is raised
\* again, whatever the fallback attempts failed with
RaiseOriginal(original, last) == original

\* an exception leaves the body of chat and reaches the retry decorator
AttemptFailed(e) ==
    IF ShouldRetry(e)
    THEN IF chatCall.attempt < StopAfterAttempt
         THEN /\ chatCall' = [chatCall EXCEPT !.attempt = @ + 1, !.next = 0, !.error = ""]
              /\ aPc' = "chat"
              /\ UNCHANGED <<response, aResult, repairCalls, chatEnd>>
         ELSE ChatRaised("RetryError")
    ELSE ChatRaised(e)

ClientUnchanged == <<jobVars, runVars, stopVars, env, stageVars, laneVars, aModel, disk, reports, keyring, stream, triage>>

\* chat: "return await self._chat_once(messages, temperature, use_model)" and
\* its except clauses
ChatOnce ==
    /\ aPc = "chat"
    /\ \E o \in {"ok"} \cup PrimaryFailures :
          /\ requests' = Append(requests, Request("primary", chatCall.model, o))
          /\ IF o = "ok"
             THEN \E text \in Replies(chatCall.purpose) : ChatReturned(text)
             ELSE IF HandledStatus(o, chatCall.allow_fallback)
                  THEN /\ aPc' = "fallback"
                       /\ chatCall' = [chatCall EXCEPT !.next = 1, !.error = o]
                       /\ UNCHANGED <<response, aResult, repairCalls, chatEnd>>
                  ELSE AttemptFailed(o)
    /\ UNCHANGED ClientUnchanged

\* chat: one iteration of the fallback loop that sends a request; after the
\* last candidate failed the original error is raised again
ChatFallback ==
    /\ aPc = "fallback"
    /\ LET candidates == FallbackCandidates(chatCall.model)
           fallback == candidates[chatCall.next]
       IN \E o \in {"ok"} \cup FallbackFailures :
             /\ requests' = Append(requests, Request("fallback", fallback, o))
             /\ IF o = "ok"
                THEN \E text \in Replies(chatCall.purpose) : ChatReturned(text)
                ELSE IF chatCall.next < Len(candidates)
                     THEN /\ chatCall' = [chatCall EXCEPT !.next = @ + 1]
                          /\ UNCHANGED <<aPc, response, aResult, repairCalls, chatEnd>>
                     ELSE AttemptFailed(RaiseOriginal(chatCall.error, o))
    /\ UNCHANGED ClientUnchanged

\* analyze_code calls _repair_json_response(response, file_path): an empty
\* response returns None at once, else the repair chat is called
RepairJsonResponse ==
    /\ aPc = "repair"
    /\ IF response = NullContent
       THEN /\ aPc' = "done" /\ aResult' = Raised("AttributeError")
            /\ UNCHANGED <<chatCall, requests, repairCalls>>
       ELSE IF response = <<>>
            THEN /\ aPc' = "done" /\ aResult' = ParseFailed(response)
                 /\ UNCHANGED <<chatCall, requests, repairCalls>>
            ELSE /\ aPc' = "chat" /\ aResult' = aResult
                 /\ chatCall' = ChatCall("repair", aModel, FALSE)
                 /\ requests' = <<>>
                 /\ repairCalls' = repairCalls + 1
    /\ UNCHANGED <<response, chatEnd, ClientUnchanged>>

\* ---------------------------- engine.py: _filter_security_irrelevant_files
\* chunk_size; 200 in the source, scaled down so that a call has several batches
ChunkSize == 2

\* a string that is not one of the candidate paths
UnlistedPath == 0

\* an element of the skip array that is not a string
NotAString == -1

\* what the skip array of a triage response can hold: candidate paths (named
\* 1..MaxPaths), other strings, other values
TriageItems == (1..MaxPaths) \cup {UnlistedPath, NotAString}

\* how the chat call of the client's filter_security_irrelevant_files can end:
\* the call raises, the response is not JSON, the JSON value is not an object,
\* its skip member is not an array, or it is an array
TriageReplies ==
    [kind : {"chat_error", "invalid_json", "not_an_object", "skip_not_a_list"}, skip : {{}}]
       \cup [kind : {"object"}, skip : SUBSET TriageItems]

\* OllamaCloudClient.filter_security_irrelevant_files: the strings of the skip
\* array; nothing for an empty list and after any exception
ClientFilter(chunk, reply) ==
    IF chunk = <<>> \/ reply.kind # "object"
    THEN {}
    ELSE {path \in reply.skip : path # NotAString}

\* file_paths[start:start + chunk_size]
Chunk(file_paths, start) ==
    SubSeq(file_paths, start + 1, Min(start + ChunkSize, Len(file_paths)))

\* a filter that lets every answered path through
AllowedAny(chunk) == TriageItems

\* allowed = set(chunk)
Allowed(chunk) == {chunk[i] : i \in DOMAIN chunk}

\* for path in skip_list: if path in allowed: skipped.add(path)
AddSkipped(skipped, chunk, skip_list) ==
    skipped \cup {path \in skip_list : path \in Allowed(chunk)}

\* _filter_security_irrelevant_files has not been called
NoTriage ==
    [pc |-> "idle", file_paths |-> <<>>, start |-> 0, skipped |-> {}, log |-> <<>>]

TriageUnchanged ==
    <<tracker, runVars, stopVars, env, stageVars, laneVars, clientVars, disk, reports, keyring, stream>>

\* the call: nothing to do without paths or without a client
FilterCall ==
    /\ triage.pc = "idle"
    /\ \E n \in 0..MaxPaths, ollama \in BOOLEAN :
          /\ triage' = [triage EXCEPT
                           !.file_paths = [i \in 1..n |-> i],
                           !.pc = IF n = 0 \/ ~ollama THEN "returned" ELSE "loop"]
          /\ job' = IF n = 0 \/ ~ollama THEN job
                    ELSE LogStep(job, tracker, "LLM file triage")
    /\ UNCHANGED TriageUnchanged

\* one round of the loop over the chunks: the client is asked about the chunk
\* and the answered paths that are in the chunk are added
FilterBatch ==
    /\ triage.pc = "loop"
    /\ triage.start < Len(triage.file_paths)
    /\ \E reply \in TriageReplies :
          LET chunk == Chunk(triage.file_paths, triage.start) IN
          triage' = [triage EXCEPT
                        !.skipped = AddSkipped(@, chunk, ClientFilter(chunk, reply)),
                        !.log = Append(@, [start |-> triage.start, reply |-> reply]),
                        !.start = @ + ChunkSize]
    /\ UNCHANGED <<job, TriageUnchanged>>

\* return list(skipped)
FilterReturn ==
    /\ triage.pc = "loop"
    /\ triage.start >= Len(triage.file_paths)
    /\ triage' = [triage EXCEPT !.pc = "returned"]
    /\ UNCHANGED <<job, TriageUnchanged>>

\* ------------------------------------------------------- specifications
\* scanners that find nothing
CalmOutcomes == {Returns(<<>>)}

\* scanners that find nothing or raise
QuietOutcomes == {Returns(<<>>), Raises("boom")}

\* summary calls that succeed with a score
QuietSummaries == {"scored"}

\* ------------------------------------------- api/main.py: status stream
\* event_generator is created: last_progress = -1, last_status = ""
StreamOpened == [step |-> "polling", last_progress |-> -1, last_status |-> ""]

\* the statuses at which event_generator leaves its loop
StreamStops == {"completed", "failed"}

\* one iteration of "while True" in event_generator: the job row is read, an
\* event is sent if progress or status differ from the last event, the loop is
\* left at completed or failed, else the generator sleeps a second
StreamPoll ==
    /\ stream.step = "polling"
    /\ stream' = [step |-> IF job.status \in StreamStops THEN "ended" ELSE "polling",
                  last_progress |-> job.progress,
                  last_status |-> job.status]
    /\ stream' # stream
    /\ UNCHANGED <<jobVars, runVars, stopVars, env, stageVars, laneVars, clientVars, disk,
                   reports, keyring, triage>>

\* ------------------------------- engine.py: API keys, clients and workers
\* the longest key of a key list, and the longest key list
MaxKeyLen == 2
MaxKeys == 2

\* str.strip() removes these
Whitespace == {" ", "NL"}

SeqsUpTo(S, n) == UNION {[1..k -> S] : k \in 0..n}

RECURSIVE StripLeft(_)
StripLeft(s) ==
    IF s = <<>> THEN s
    ELSE IF Head(s) \in Whitespace THEN StripLeft(Tail(s)) ELSE s

RECURSIVE StripRight(_)
StripRight(s) ==
    IF s = <<>> THEN s
    ELSE IF s[Len(s)] \in Whitespace THEN StripRight(SubSeq(s, 1, Len(s) - 1)) ELSE s

\* str.strip()
Strip(s) == StripRight(StripLeft(s))

\* raw_keys.replace("\n", ",")
ReplaceNewlines(s) == [i \in DOMAIN s |-> IF s[i] = "NL" THEN "," ELSE s[i]]

\* str.split(","): the pieces between the commas, empty pieces included
RECURSIVE Split(_)
Split(s) ==
    IF \A i \in DOMAIN s : s[i] # ","
    THEN <<s>>
    ELSE LET i == CHOOSE k \in DOMAIN s : s[k] = "," /\ \A j \in 1..(k - 1) : s[j] # ","
         IN <<SubSeq(s, 1, i - 1)>> \o Split(SubSeq(s, i + 1, Len(s)))

\* an element of a key list, or the value of ollama_api_key: None or a string
NoneItem == [is_none |-> TRUE, text |-> <<>>]
Item(text) == [is_none |-> FALSE, text |-> text]

\* "if single_key": neither None nor the empty string
Truthy(item) == ~item.is_none /\ item.text # <<>>

\* the list "keys" of _normalize_api_keys before normalisation: the stripped
\* pieces of a string, or str(item) of the items of a list that are not None;
\* then ollama_api_key if set
RawKeys(config) ==
    (CASE config.raw_kind = "str" ->
             LET pieces == Split(ReplaceNewlines(config.raw_str))
             IN [i \in DOMAIN pieces |-> Strip(pieces[i])]
       [] config.raw_kind = "list" ->
             LET items == SelectSeq(config.raw_list, LAMBDA item : ~item.is_none)
             IN [i \in DOMAIN items |-> items[i].text]
       [] OTHER -> <<>>)
    \o (IF Truthy(config.single_key) THEN <<config.single_key.text>> ELSE <<>>)

InSeq(x, seq) == \E i \in DOMAIN seq : seq[i] = x

\* a normalisation that keeps repeated keys
KeepNonEmpty(trimmed, seen) == trimmed # <<>>

\* if trimmed and trimmed not in seen
KeepKey(trimmed, seen) == trimmed # <<>> /\ ~InSeq(trimmed, seen)

\* for key in keys: trimmed = str(key).strip(); kept when new and not empty
RECURSIVE NormalizeFrom(_, _)
NormalizeFrom(keys, normalized) ==
    IF keys = <<>> THEN normalized
    ELSE LET trimmed == Strip(Head(keys)) IN
         NormalizeFrom(Tail(keys),
                       IF KeepKey(trimmed, normalized) THEN Append(normalized, trimmed)
                       ELSE normalized)

\* _normalize_api_keys: the normalised keys of the job config, or without any
\* the stripped key of the settings, if it is not empty
NormalizeApiKeys(config) ==
    LET normalized == NormalizeFrom(RawKeys(config), <<>>)
        fallback == Strip(config.settings_key)
    IN IF normalized # <<>> THEN normalized
       ELSE IF fallback # <<>> THEN <<fallback>> ELSE <<>>

\* OllamaCloudClient.__init__: self.api_key = api_key or settings.ollama_api_key
ClientKey(api_key, settings_key) == IF api_key # <<>> THEN api_key ELSE settings_key

\* client = self.ollama_clients[idx % len(self.ollama_clients)]
WorkerClient(clients, idx) == clients[(idx % Len(clients)) + 1]

\* the job configurations: ollama_api_keys absent, a string of at most
\* MaxKeyLen + 1 characters, or a list of at most MaxKeys keys or None;
\* ollama_api_key; the key of the settings; the number of code files
KeyConfigs ==
    LET keyTexts == SeqsUpTo({" ", "a"}, MaxKeyLen)
        items == {Item(t) : t \in keyTexts} \cup {NoneItem}
        raws == {[raw_kind |-> "none", raw_str |-> <<>>, raw_list |-> <<>>]}
                \cup {[raw_kind |-> "str", raw_str |-> t, raw_list |-> <<>>] :
                         t \in SeqsUpTo({" ", ",", "NL", "a"}, MaxKeyLen + 1)}
                \cup {[raw_kind |-> "list", raw_str |-> <<>>, raw_list |-> l] :
                         l \in SeqsUpTo(items, MaxKeys)}
    IN {[raw_kind |-> r.raw_kind, raw_str |-> r.raw_str, raw_list |-> r.raw_list,
         single_key |-> k, settings_key |-> sk, files |-> n] :
           r \in raws,
           k \in {NoneItem, Item(<<>>), Item(<<"a">>), Item(<<" ", "a">>)},
           sk \in {<<>>, <<" ">>, <<"a", " ">>},
           n \in {0, 1, MaxFiles}}

Keyring(step, config, clients, workers) ==
    [step |-> step, config |-> config, clients |-> clients, workers |-> workers]

\* the run is not about its keys
Unconfigured == Keyring("unused", <<>>, <<>>, <<>>)

KeysUnchanged ==
    <<jobVars, runVars, stopVars, env, stageVars, laneVars, clientVars, disk, reports, stream,
      triage>>

\* _init_llm_clients: one client per normalised key, or one client of the
\* settings key; a client without any key raises ValueError, which fails run()
InitLlmClients ==
    /\ keyring.step = "start"
    /\ LET api_keys == NormalizeApiKeys(keyring.config)
           clients == IF api_keys # <<>>
                      THEN [i \in DOMAIN api_keys |->
                               ClientKey(api_keys[i], keyring.config.settings_key)]
                      ELSE <<ClientKey(<<>>, keyring.config.settings_key)>>
       IN IF \E i \in DOMAIN clients : clients[i] = <<>>
          THEN keyring' = Keyring("raised", keyring.config, <<>>, <<>>)
          ELSE keyring' = Keyring("clients", keyring.config, clients, <<>>)
    /\ UNCHANGED KeysUnchanged

\* _run_llm_analysis: with no file the stage returns; else worker idx of
\* worker_count is created with its client
CreateWorkers ==
    /\ keyring.step = "clients"
    /\ LET total == keyring.config.files
           n == WorkerCount(Len(keyring.clients), total)
       IN IF total = 0
          THEN keyring' = [keyring EXCEPT !.step = "no_files"]
          ELSE keyring' = [keyring EXCEPT !.step = "workers",
                              !.workers = [w \in 1..n |-> WorkerClient(keyring.clients, w - 1)]]
    /\ UNCHANGED KeysUnchanged

\* what the run meets: the number of code files, the number of API keys, what a
\* scanner invocation may do, what the name triage may answer, how the analysis
\* of a file may end
EnvInit(files, creds, outcomes, skip_sets, analyses, summary_outcomes) ==
    /\ env \in [files : files, creds : creds, outcomes : outcomes, triage : skip_sets,
                analyses : analyses, summary_outcomes : summary_outcomes]
    /\ keyring = Unconfigured
    /\ stream = StreamOpened

\* no stop request has come yet
StopInit ==
    /\ stopPc = "idle" /\ stopSaved = 0 /\ stopsLeft = MaxStops
    /\ revokePending = FALSE /\ flagEverSet = FALSE
    /\ killed = FALSE

\* the job row create_job inserted, run() about to start
RunInit ==
    /\ job = [status |-> "pending", message |-> None, progress |-> 0, error |-> None,
              updates |-> <<>>]
    /\ tracker = [stage |-> "", progress |-> 0]
    /\ pc = "run" /\ ip = 1 /\ exc = "" /\ result = FALSE
    /\ disk = Disk(None, FALSE, FALSE) /\ reports = 0

\* _run_all_scanners not yet called, create_finding not yet called
ScanInit ==
    /\ uIdx = 0 /\ cIdx = 0 /\ sIdx = 0
    /\ scannerRuns = <<>> /\ allFindings = <<>> /\ findings = {}
    /\ outcomeLog = <<>> /\ lastCall = <<>> /\ lastId = 0

\* _run_llm_analysis not yet called
LlmInit ==
    /\ fileJobs = <<>> /\ queue = <<>> /\ unfinished = 0 /\ workerCount = 0
    /\ wpc = NoWorkers /\ wtask = [w \in Workers |-> 0]
    /\ processedFiles = 0 /\ lastProgress = 0 /\ sumIdx = 0
    /\ summaries = [c \in 1..NumComponents |-> {}]
    /\ analysisLog = [t \in Tasks |-> <<>>]
    /\ components = IF pc = "run" /\ ip = 1 THEN <<>> ELSE SavedComponents
    /\ summaryLog = [c \in 1..NumComponents |-> ""]
    /\ startCount = [t \in Tasks |-> 0] /\ doneCount = [t \in Tasks |-> 0]
    /\ pills = [w \in Workers |-> 0]
    /\ triage = NoTriage

\* no client has sent a request yet
LaneInit ==
    /\ locks = [k \in LockKeys |-> 0]
    /\ lockHolder = <<>>
    /\ lastRequestTimes = [k \in LockKeys |-> 0]
    /\ now = LlmRequestDelay
    /\ cpc = [c \in Callers |-> "idle"]
    /\ cLock = [c \in Callers |-> 0]
    /\ cWake = [c \in Callers |-> 0]
    /\ sentLog = [k \in Credentials |-> <<>>]

\* analyze_code is not running
ClientInit ==
    /\ aPc = "idle" /\ aModel = "" /\ chatCall = NoCall /\ requests = <<>>
    /\ response = <<>> /\ aResult = NoResult /\ repairCalls = 0
    /\ chatEnd = ChatEnded("", "")

\* the whole pipeline of one job with stop requests arriving at any time; the
\* scanners find nothing or raise
Init ==
    /\ EnvInit({0, 1, 2}, {1}, {QuietOutcomes}, {{{}}}, {CalmAnalyses},
               {QuietSummaries})
    /\ RunInit /\ StopInit /\ ScanInit /\ LlmInit /\ LaneInit /\ ClientInit

StopNext == StopJobRead \/ StopJobWrite \/ CeleryTerminate

RunNext ==
    \/ EnsureNotCancelled \/ StageUpdate \/ CloneRepository \/ DetectAndSave
    \/ RunReturn \/ FailedHandler \/ FailedHandlerError
    \/ RunGenerateReport \/ ReportReturn \/ StageRaises

ScanNext ==
    \/ RunAllScanners \/ UniversalLoop \/ UniversalUpdate \/ UniversalStart
    \/ UniversalReturn \/ ComponentLoop \/ LanguageLoop \/ LanguageUpdate
    \/ LanguageStart \/ LanguageReturn

LlmNext ==
    \/ RunLlmAnalysis \/ LlmStartWorkers
    \/ (\E w \in Workers : WorkerGet(w))
    \/ (\E w \in Workers : WorkerFinish(w))
    \/ QueueJoin \/ AwaitWorkers \/ SummaryLoop \/ SummaryReturn

Next == RunNext \/ ScanNext \/ LlmNext \/ CancelledHandler \/ StopNext

Spec == Init /\ [][Next]_vars

\* the whole pipeline for a repository with at most one code file and one key
InitStages ==
    /\ EnvInit({0, 1}, {1}, {CalmOutcomes}, {{{}}}, {CalmAnalyses},
               {QuietSummaries})
    /\ RunInit /\ StopInit /\ ScanInit /\ LlmInit /\ LaneInit /\ ClientInit

SpecStages == InitStages /\ [][Next]_vars

\* the position in run() of the call of a stage
StmtIndex(op) == CHOOSE i \in DOMAIN RunProgram : RunProgram[i].op = op

\* run() has reached the call of a stage and no stop request has come: the job
\* row and the tracker hold what the status update before the call wrote, and
\* the trace is followed from that update on
ReachedStage(op) ==
    LET i == StmtIndex(op)
        s == RunProgram[i - 1]
    IN /\ pc = "run" /\ ip = i /\ exc = "" /\ result = FALSE
       /\ job = [status |-> s.stage, message |-> s.message, progress |-> s.progress,
                 error |-> None,
                 updates |-> <<[stage |-> s.stage, message |-> s.message,
                                progress |-> s.progress]>>]
       /\ tracker = [stage |-> s.stage, progress |-> s.progress]
       /\ disk = Disk(RepoDir, TRUE, FALSE) /\ reports = 0

\* the scan stage with scanners that return findings, duplicates included, or
\* raise; stop requests arrive at any time
InitScan ==
    /\ EnvInit({0}, {1}, {ScanOutcomes}, {{{}}}, {QuietAnalyses},
               {QuietSummaries})
    /\ ReachedStage("scanners") /\ StopInit /\ ScanInit /\ LlmInit /\ LaneInit /\ ClientInit

NextScan == ScanNext \/ CancelledHandler \/ StopNext

SpecScan == InitScan /\ [][NextScan]_vars

\* scanners that each report one finding or raise
FailOutcomes == {Returns(<<FindingA>>), Raises("boom")}

\* the scan stage and the rest of run() for a repository without code files,
\* with the exceptions its stages can raise; stop requests arrive at any time
InitFail ==
    /\ EnvInit({0}, {1}, {FailOutcomes}, {{{}}}, {QuietAnalyses},
               {QuietSummaries})
    /\ ReachedStage("scanners") /\ StopInit /\ ScanInit /\ LlmInit /\ LaneInit /\ ClientInit

\* every condition of the tool behind scanner.scan(...)
ToolOutcomes ==
    {BaseScannerScan(tool, 0, "boom", <<>>) : tool \in ToolConditions}
    \cup {BaseScannerScan("exited", 1, "", <<FindingA>>),
          BaseScannerScan("exited", 2, "", <<>>)}

\* the scan stage over tools that are missing, time out, fail to start, exit
\* or produce output that cannot be parsed; stop requests arrive at any time
InitTools ==
    /\ EnvInit({0}, {1}, {ToolOutcomes}, {{{}}}, {QuietAnalyses},
               {QuietSummaries})
    /\ ReachedStage("scanners") /\ StopInit /\ ScanInit /\ LlmInit /\ LaneInit /\ ClientInit

SpecTools == InitTools /\ [][NextScan]_vars

NextFail ==
    \/ ScanNext \/ EnsureNotCancelled \/ StageUpdate \/ RunLlmAnalysis
    \/ RunGenerateReport \/ ReportReturn \/ StageRaises
    \/ FailedHandler \/ FailedHandlerError \/ RunReturn \/ CancelledHandler \/ StopNext

SpecFail == InitFail /\ [][NextFail]_vars

\* the scan stage and the rest of run() with a client following the job on
\* its status stream; stop requests arrive at any time
NextStream == NextFail \/ StreamPoll

SpecStream == InitFail /\ [][NextStream]_vars

CompletedRun(scanner, component) ==
    [scanner |-> scanner, component |-> component, status |-> "completed",
     findings_count |-> 0, error_message |-> None]

RECURSIVE LanguageRuns(_)
LanguageRuns(c) ==
    IF c > NumComponents THEN <<>>
    ELSE LET scanners == ScannerForLanguage(ComponentLanguage(c)) IN
         [i \in 1..Len(scanners) |-> CompletedRun(scanners[i], c)] \o LanguageRuns(c + 1)

RECURSIVE LastScannerIndex(_)
LastScannerIndex(c) ==
    IF c = 0 THEN 0
    ELSE LET scanners == ScannerForLanguage(ComponentLanguage(c)) IN
         IF scanners = <<>> THEN LastScannerIndex(c - 1) ELSE Len(scanners)

\* _run_all_scanners has returned, every scanner having found nothing
ScanDone ==
    /\ uIdx = Len(UniversalScanners) /\ cIdx = NumComponents
    /\ sIdx = LastScannerIndex(NumComponents)
    /\ scannerRuns = [i \in 1..Len(UniversalScanners) |->
                         CompletedRun(UniversalScanners[i], 0)] \o LanguageRuns(1)
    /\ outcomeLog = [i \in 1..Len(scannerRuns) |-> Returns(<<>>)]
    /\ allFindings = <<>> /\ findings = {}
    /\ lastCall = <<>> /\ lastId = 0

\* the LLM-analysis stage and what follows it in run(), for every number of
\* files and keys and every answer of the name triage; stop requests arrive at
\* any time
InitLlm ==
    /\ EnvInit(0..MaxFiles, 1..MaxCreds, {QuietOutcomes}, {SUBSET (1..MaxFiles)}, {QuietAnalyses},
               {QuietSummaries})
    /\ ReachedStage("llm") /\ StopInit /\ ScanDone /\ LlmInit /\ LaneInit /\ ClientInit

NextLlm ==
    \/ LlmNext \/ EnsureNotCancelled \/ StageUpdate \/ RunGenerateReport \/ ReportReturn
    \/ RunReturn \/ CancelledHandler \/ StopNext

SpecLlm == InitLlm /\ [][NextLlm]_vars

\* the LLM-analysis stage of a job nobody asks to stop, the name triage
\* flagging nothing
InitWorkers ==
    /\ EnvInit(0..MaxFiles, 1..MaxCreds, {QuietOutcomes}, {{{}}}, {QuietAnalyses},
               {QuietSummaries})
    /\ ReachedStage("llm") /\ StopInit /\ ScanDone /\ LlmInit /\ LaneInit /\ ClientInit

SpecWorkers == InitWorkers /\ [][LlmNext]_vars

\* the LLM-analysis stage of a job with one key that nobody asks to stop, for
\* every answer of the name triage
InitOrder ==
    /\ EnvInit(0..MaxFiles, {1}, {QuietOutcomes}, {SUBSET (1..MaxFiles)}, {QuietAnalyses},
               {QuietSummaries})
    /\ ReachedStage("llm") /\ StopInit /\ ScanDone /\ LlmInit /\ LaneInit /\ ClientInit

SpecOrder == InitOrder /\ [][LlmNext]_vars

\* the LLM-analysis stage for one or two files whose analyses report issues;
\* stop requests arrive at any time
InitIssues ==
    /\ EnvInit({1, 2}, {1, 2}, {QuietOutcomes}, {{{}}}, {IssueAnalyses},
               {QuietSummaries})
    /\ ReachedStage("llm") /\ StopInit /\ ScanDone /\ LlmInit /\ LaneInit /\ ClientInit

SpecIssues == InitIssues /\ [][NextLlm]_vars

\* the LLM-analysis stage for one or two files and keys on an event loop that
\* runs every coroutine that is ready; stop requests arrive at any time
InitJoin ==
    /\ EnvInit({1, 2}, {1, 2}, {QuietOutcomes}, {{{}}}, {CalmAnalyses},
               {QuietSummaries})
    /\ ReachedStage("llm") /\ StopInit /\ ScanDone /\ LlmInit /\ LaneInit /\ ClientInit

SpecJoin == InitJoin /\ [][NextLlm]_vars /\ WF_vars(LlmNext)

\* the LLM-analysis stage for one or two files, the summary call of each
\* component ending in any of its ways
InitSummaries ==
    /\ EnvInit({1, 2}, {1}, {QuietOutcomes}, {{{}}}, {QuietAnalyses},
               {SummaryOutcomes})
    /\ ReachedStage("llm") /\ StopInit /\ ScanDone /\ LlmInit /\ LaneInit /\ ClientInit

SpecSummaries == InitSummaries /\ [][NextLlm]_vars

\* callers of _chat_once in one process, sharing and not sharing credentials
InitLane ==
    /\ EnvInit({0}, {1}, {QuietOutcomes}, {{{}}}, {QuietAnalyses},
               {QuietSummaries})
    /\ RunInit /\ StopInit /\ ScanInit /\ LlmInit /\ LaneInit /\ ClientInit

\* the clients and workers of one job, for every key configuration
InitKeys ==
    /\ env \in [files : {0}, creds : {1}, outcomes : {QuietOutcomes}, triage : {{}},
                analyses : {QuietAnalyses}, summary_outcomes : {QuietSummaries}]
    /\ keyring \in {Keyring("start", config, <<>>, <<>>) : config \in KeyConfigs}
    /\ stream = StreamOpened
    /\ RunInit /\ StopInit /\ ScanInit /\ LlmInit /\ LaneInit /\ ClientInit

NextKeys == InitLlmClients \/ CreateWorkers

SpecKeys == InitKeys /\ [][NextKeys]_vars

NextLane ==
    \/ (\E c \in Callers : ChatOnceEnter(c))
    \/ (\E c \in Callers : LockAcquire(c))
    \/ (\E c \in Callers : WaitForRateLimit(c))
    \/ (\E c \in Callers : SleepReturn(c))
    \/ (\E c \in Callers : ChatOnceLeave(c))
    \/ Tick

SpecLane == InitLane /\ [][NextLane]_vars

\* the findings a caller of create_finding can pass
FindingInputs ==
    {FindingA, FindingA2, FindingB,
     [rule_id |-> "", title |-> "first", file_path |-> "a.py", line_start |-> NoLine,
      severity |-> "low"],
     [rule_id |-> "R1", title |-> "first", file_path |-> "a.py", line_start |-> 2,
      severity |-> "high"]}

\* db.create_finding(job_id, scanner, ...) called directly
CreateFindingCall ==
    \E scanner \in {"llm", "ruff"}, f \in FindingInputs :
       LET r == CreateFinding(findings, scanner, 0, f) IN
       /\ findings' = r.store
       /\ lastId' = r.id
       /\ lastCall' = <<scanner, f>>
       /\ UNCHANGED <<jobVars, runVars, stopVars, env, uIdx, cIdx, sIdx, scannerRuns,
                      allFindings, outcomeLog, llmVars, laneVars, clientVars, disk, reports, keyring, stream, triage>>

\* any sequence of create_finding calls on the findings of one job
SpecFinding == InitLane /\ [][CreateFindingCall]_vars

\* analyze_code has been called and is about to call chat
ClientStart ==
    /\ aPc = "chat" /\ aModel \in Models
    /\ chatCall = ChatCall("analysis", aModel, TRUE)
    /\ requests = <<>> /\ response = <<>> /\ aResult = NoResult /\ repairCalls = 0
    /\ chatEnd = ChatEnded("", "")

InitClient ==
    /\ EnvInit({0}, {1}, {QuietOutcomes}, {{{}}}, {QuietAnalyses},
               {QuietSummaries})
    /\ RunInit /\ StopInit /\ ScanInit /\ LlmInit /\ LaneInit /\ ClientStart

NextClient == ChatOnce \/ ChatFallback \/ RepairJsonResponse

\* one call of analyze_code against a server that answers anything
SpecClient == InitClient /\ [][NextClient]_vars

NextTriage == FilterCall \/ FilterBatch \/ FilterReturn

\* one call of _filter_security_irrelevant_files on any list of candidate
\* paths, the client answering each batch in any way
SpecTriage == InitLane /\ [][NextTriage]_vars

\* ------------------------------------------------------------ properties
\* the workers of the stage that were created
Created == 1..workerCount

\* the file tasks put on the queue
Queued == 1..env.files

\* _run_llm_analysis has created its workers and awaited them all
WorkersAwaited == workerCount > 0 /\ pc \notin {"llm_triage", "llm_join", "llm_await"}

\* C1: in a run that is never cancelled every file task put on the queue is
\* started and finished by exactly one worker, never twice and, once the
\* workers have exited, never zero times; every worker consumes exactly one
\* poison pill and exits, and none is left waiting on an empty queue.
C1_EveryTaskExactlyOnce ==
    ~flagEverSet =>
       /\ \A t \in Tasks : startCount[t] <= 1 /\ doneCount[t] <= startCount[t]
       /\ \A t \in Tasks \ Queued : startCount[t] = 0
       /\ \A w \in Workers : pills[w] <= 1 /\ (wpc[w] = "done" <=> pills[w] = 1)
       /\ \A w \in Created : wpc[w] = "get" => queue # <<>>
       /\ (workerCount > 0 /\ \A w \in Created : wpc[w] = "done")
             => \A t \in Queued : doneCount[t] = 1
       /\ WorkersAwaited
             => /\ \A t \in Queued : startCount[t] = 1 /\ doneCount[t] = 1
                /\ \A w \in Created : pills[w] = 1 /\ wpc[w] = "done"
                /\ queue = <<>> /\ unfinished = 0

\* the most files, shared by two or more workers, all analysed and awaited
C1_Witness ==
    /\ ~flagEverSet /\ WorkersAwaited
    /\ env.files = MaxFiles /\ workerCount >= 2
    /\ \A t \in Queued : doneCount[t] = 1
    /\ \A w \in Created : pills[w] = 1

\* C2: once the stop request has written status cancelled, no step of the
\* engine starts a scanner invocation (a new ScannerRun) or a file-analysis
\* task.
C2_NoStartAfterCancel ==
    [][flagEverSet => /\ Len(scannerRuns') = Len(scannerRuns)
                      /\ startCount' = startCount]_vars

\* C3: while the engine process lives, no worker of the LLM stage waits on an
\* empty queue: nothing is put on the queue after the stage filled it, so such
\* a worker waits forever and with it the await of run() on that worker.
C3_NoWorkerBlocksForever ==
    ~killed => \A w \in Created : ~(wpc[w] = "get" /\ queue = <<>>)

\* C4: once the persisted status is cancelled, no write changes it.
C4_CancelledIsTerminal ==
    [][job.status = "cancelled" => job'.status = "cancelled"]_vars

\* C5: no write to the job row lowers the persisted progress.
C5_ProgressNonDecreasing ==
    [][job'.progress >= job.progress]_vars

\* the callers of _chat_once that hold their lane lock
InLane(c) == cpc[c] \in {"limit", "sleep", "send"}

\* the timestamp recorded last for a credential
LastSent(k) == sentLog[k][Len(sentLog[k])]

\* C6: the callers using one credential all get the same lock object, the one
\* registered for the credential, and at most one of them is past the lock at
\* any time, so at most one request per credential is in flight.
C6_OneRequestPerCredential ==
    \A c1, c2 \in Callers :
       (c1 # c2 /\ CallerCredential(c1) = CallerCredential(c2)) =>
          /\ (cpc[c1] # "idle" /\ cpc[c2] # "idle") => cLock[c1] = cLock[c2]
          /\ cpc[c1] # "idle" => cLock[c1] = locks[LockKey(c1)]
          /\ ~(InLane(c1) /\ InLane(c2))
          /\ ~(cpc[c1] = "send" /\ cpc[c2] = "send")

\* one caller's request is in flight while another caller with the same
\* credential waits for the lane lock
C6_Witness ==
    \E c1, c2 \in Callers :
       /\ c1 # c2 /\ CallerCredential(c1) = CallerCredential(c2)
       /\ cpc[c1] = "send" /\ cpc[c2] = "acquire" /\ cLock[c1] = cLock[c2]

\* C7: two consecutive timestamps recorded for one credential are at least
\* llm_request_delay apart.
C7_MinimumInterval ==
    \A k \in Credentials :
       \A i \in 1..(Len(sentLog[k]) - 1) :
          sentLog[k][i + 1] - sentLog[k][i] >= LlmRequestDelay

\* the second request of a credential had to sleep and left exactly the
\* minimum interval after the first
C7_Witness ==
    \E k \in Credentials, c \in Callers :
       /\ CallerCredential(c) = k /\ cpc[c] = "send" /\ cWake[c] = now
       /\ Len(sentLog[k]) = 2
       /\ sentLog[k][2] - sentLog[k][1] = LlmRequestDelay

FindingKey(scanner, f) ==
    <<scanner, RuleOrTitle(f.rule_id, f.title), f.file_path, f.line_start>>

\* C9: the stored findings of a job never hold two rows with the same
\* (scanner, rule id or title, file path, line), and a create_finding call for
\* a finding whose key is already stored returns no id and leaves the stored
\* findings as they were.
C9_IdempotentInsert ==
    /\ [](\A r1, r2 \in findings :
             FindingKey(r1.scanner, r1) = FindingKey(r2.scanner, r2) => r1 = r2)
    /\ [][(\E r \in findings :
              FindingKey(r.scanner, r) = FindingKey(lastCall'[1], lastCall'[2]))
             => (lastId' = 0 /\ findings' = findings)]_vars

\* the last call passed a finding that differs from a stored one only outside
\* the key; it returned no id and the stored row is the first one
C9_Witness ==
    /\ lastCall # <<>> /\ lastId = 0
    /\ \E r \in findings :
          /\ FindingKey(r.scanner, r) = FindingKey(lastCall[1], lastCall[2])
          /\ r.title # lastCall[2].title
          /\ r.severity # lastCall[2].severity
    /\ Cardinality(findings) >= 2

\* the scanner invocations of one run of the stage, in order
AllScanners == Len(UniversalScanners) + Len(LanguageRuns(1))

\* C10: a scanner invocation that raised has its ScannerRun marked failed with
\* a non-empty error message; the exception does not leave the stage, and a
\* stage that was not cancelled returns with every scanner invoked.
C10_FailedRunHasMessage ==
    /\ \A i \in 1..Len(outcomeLog) :
          outcomeLog[i].raises =>
             /\ scannerRuns[i].status = "failed"
             /\ scannerRuns[i].error_message \notin {None, ""}
    /\ pc \notin {"failed_handler", "failed_handler2"}
    /\ (pc = "run" /\ ip > StmtIndex("scanners")) => Len(scannerRuns) = AllScanners

\* the poison pills still on the queue
PillsQueued == Cardinality({i \in 1..Len(queue) : queue[i] = Pill})

\* C11: the stage starts max(1, min(credential_count, task_count)) workers,
\* which with at least one credential and one task is the smaller of the two
\* counts; it enqueues exactly that many poison pills, each behind every file
\* task: the filled queue is the file tasks followed by one pill per worker.
C11_WorkerCountAndPills ==
    (workerCount > 0 /\ ~flagEverSet) =>
       /\ workerCount = (IF env.creds <= env.files THEN env.creds ELSE env.files)
       /\ Cardinality({w \in Workers : wpc[w] # "none"}) = workerCount
       /\ PillsQueued + Cardinality({w \in Workers : pills[w] = 1}) = workerCount
       /\ \A i, j \in 1..Len(queue) : (i < j /\ queue[i] = Pill) => queue[j] = Pill
       /\ (\A t \in Tasks : startCount[t] = 0) =>
             /\ Len(queue) = env.files + workerCount
             /\ \A i \in 1..env.files : queue[i] = fileJobs[i] /\ queue[i] # Pill
             /\ \A i \in (env.files + 1)..Len(queue) : queue[i] = Pill

\* 3 files and 2 credentials: 2 workers, the 3 tasks and then 2 pills queued
C11_Witness ==
    /\ env.files = 3 /\ env.creds = 2 /\ workerCount = 2
    /\ pc = "llm_join" /\ Len(queue) = 5 /\ PillsQueued = 2
    /\ queue[4] = Pill /\ queue[5] = Pill
    /\ \A w \in Created : wpc[w] = "get"

\* the upper end of the analyzing band: the progress run() writes next, with
\* status generating_report
AnalyzingUpperBound == RunProgram[StmtIndex("llm") + 2].progress

\* C12: once all workers of a run that was not cancelled have been awaited,
\* the progress persisted with status analyzing is the upper bound of the
\* analyzing band, 90.
C12_AnalyzingReachesUpperBound ==
    (WorkersAwaited /\ ~flagEverSet /\ job.status = "analyzing") =>
       job.progress = AnalyzingUpperBound

\* analyze_code has returned or raised
AnalyzeCodeEnded == aPc = "done"

\* the direct parse, the sanitized parse and the repair round-trip all failed
AllParsesFailed ==
    /\ AnalyzeCodeEnded
    /\ chatEnd.purpose = "repair" \/ (chatEnd.purpose = "analysis" /\ chatEnd.outcome = "ok")
    /\ aResult.kind # "parsed"

\* C13: analyze_code never raises: whatever the requests do and whatever the
\* server answers, it ends by returning a result; when the direct parse, the
\* sanitized parse and the repair round-trip all failed the result carries the
\* parse_error marker, the response text as raw_response and empty issue lists.
C13_AnalyzeCodeNeverRaises ==
    /\ aResult.kind # "raised"
    /\ AnalyzeCodeEnded => aResult.kind \in {"parsed", "chat_failed", "parse_failed"}
    /\ AllParsesFailed =>
          /\ aResult.kind = "parse_failed"
          /\ aResult.parse_error # ""
          /\ aResult.raw_response = response
          /\ aResult.security_issues = <<>> /\ aResult.quality_issues = <<>>

\* the direct stage of the ladder yields a JSON object for the response
DirectSucceeds == JsonLoads(ExtractJsonPayload(response)) = "dict"

\* the sanitized stage of the ladder yields a JSON object for the response
SanitizedSucceeds == JsonLoads(SanitizeJsonText(ExtractJsonPayload(response))) = "dict"

\* the chat call of analyze_code returned a response that json.loads can follow
ResponseReceived ==
    /\ chatEnd.purpose # ""
    /\ ~(chatEnd.purpose = "analysis" /\ chatEnd.outcome # "ok")
    /\ response \notin {NullContent, DeepNested}

\* C14: the parse ladder is ordered and deterministic: the result comes from the
\* first stage that succeeds among direct, sanitized and repair; the fenced
\* response with trailing commas and prose around it is parsed by the
\* sanitized stage without a repair call; the repair call is made at most once
\* per analyze_code, only after both local parses failed, and never for an
\* empty response.
C14_ParseLadderOrdered ==
    /\ repairCalls <= 1
    /\ repairCalls = 1 => (response # <<>> /\ ~DirectSucceeds /\ ~SanitizedSucceeds)
    /\ (AnalyzeCodeEnded /\ ResponseReceived) =>
          /\ DirectSucceeds => (aResult.kind = "parsed" /\ aResult.method = "direct")
          /\ (~DirectSucceeds /\ SanitizedSucceeds) =>
                (aResult.kind = "parsed" /\ aResult.method = "sanitized")
          /\ (aResult.kind = "parsed" /\ aResult.method = "repair") =>
                (~DirectSucceeds /\ ~SanitizedSucceeds /\ repairCalls = 1)
          /\ response = TrailingCommaFenced =>
                (aResult.kind = "parsed" /\ aResult.method = "sanitized" /\ repairCalls = 0)

\* the fenced response with trailing commas was parsed by the sanitized stage
C14_Witness ==
    /\ AnalyzeCodeEnded
    /\ response = TrailingCommaFenced
    /\ aResult.kind = "parsed" /\ aResult.method = "sanitized"
    /\ repairCalls = 0

\* the chat call the logged requests belong to
CurrentPurpose == IF chatCall.purpose # "" THEN chatCall.purpose ELSE chatEnd.purpose

\* the chat call the logged requests belong to has returned or raised
ChatHasEnded == chatCall = NoCall /\ chatEnd.purpose # "" /\ aPc # "chat"

\* place of a model in fallback_models
FallbackIndex(m) == CHOOSE i \in 1..Len(FallbackModels) : FallbackModels[i] = m

\* the requests chat sent to fallback models, in the order sent
FallbackRequests == SelectSeq(requests, LAMBDA q : q.kind = "fallback")

\* the requests chat sent to the requested model, in the order sent
PrimaryRequests == SelectSeq(requests, LAMBDA q : q.kind = "primary")

\* C15: on a 401 or 404 from the requested model with fallback allowed, chat
\* tries each alternate model different from the requested one at most once,
\* in list order, and returns the first success; a fallback attempt never
\* starts a fallback of its own; when every alternate fails the original HTTP
\* error is raised; with allow_fallback false no alternate is tried.
C15_FallbackOneLevel ==
    LET fb == FallbackRequests IN
    /\ \A i \in 1..Len(fb) :
          /\ fb[i].model # aModel
          /\ \E k \in 1..Len(FallbackModels) : FallbackModels[k] = fb[i].model
          /\ \A k \in 1..(FallbackIndex(fb[i].model) - 1) :
                \/ FallbackModels[k] = aModel
                \/ \E j \in 1..(i - 1) : fb[j].model = FallbackModels[k]
          /\ \A j \in 1..(i - 1) : FallbackIndex(fb[j].model) < FallbackIndex(fb[i].model)
    /\ \A k \in 1..Len(requests) :
          /\ k < Len(requests) => requests[k].outcome # "ok"
          /\ requests[k].kind = "fallback" =>
                /\ k > 1
                /\ requests[k - 1].kind = "primary" =>
                      requests[k - 1].outcome \in {"HTTP401", "HTTP404"}
                /\ \A j \in (k + 1)..Len(requests) : requests[j].kind = "fallback"
    /\ CurrentPurpose = "repair" => Len(fb) = 0
    /\ (ChatHasEnded /\ Len(fb) > 0) =>
          IF fb[Len(fb)].outcome = "ok"
          THEN chatEnd.outcome = "ok"
          ELSE /\ Len(fb) = Len(FallbackModels) - (IF aModel = "gpt-oss:120b-cloud" THEN 1 ELSE 0)
               /\ chatEnd.outcome = PrimaryRequests[Len(PrimaryRequests)].outcome
               /\ chatEnd.outcome \in {"HTTP401", "HTTP404"}
    /\ (ChatHasEnded /\ CurrentPurpose = "analysis" /\ Len(fb) = 0 /\ Len(requests) > 0) =>
          requests[Len(requests)].outcome \notin {"HTTP401", "HTTP404"}

\* every alternate model was tried once after a 404 and failed, and chat raised
\* the 404; the requested model is one of the list
C15_Witness ==
    /\ ChatHasEnded
    /\ aModel = "gpt-oss:120b-cloud"
    /\ Len(FallbackRequests) = 2
    /\ FallbackRequests[2].outcome # "ok"
    /\ chatEnd.outcome = "HTTP404"

\* an HTTP status error of the requested model that chat does not hand to the
\* fallback loop
OtherStatusError(q) ==
    /\ q.kind = "primary"
    /\ \/ q.outcome = "HTTP500"
       \/ q.outcome \in {"HTTP401", "HTTP404"} /\ CurrentPurpose = "repair"

\* C16: chat is retried only after a timeout or connection error of the request
\* to the requested model, and makes at most 2 attempts; any other HTTP status
\* error is raised to the caller after that one request, with no retry and no
\* fallback.
C16_RetryOnlyTransient ==
    /\ Len(PrimaryRequests) <= 2
    /\ chatCall.attempt <= 2
    /\ \A k \in 2..Len(requests) :
          requests[k].kind = "primary" =>
             /\ requests[k - 1].kind = "primary"
             /\ requests[k - 1].outcome \in {"TimeoutException", "ConnectError"}
    /\ \A k \in 1..Len(requests) :
          OtherStatusError(requests[k]) =>
             /\ k = Len(requests)
             /\ ChatHasEnded
             /\ chatEnd.outcome = requests[k].outcome

\* a timeout was retried once and the second attempt got a 500, which chat raised
C16_Witness ==
    /\ ChatHasEnded
    /\ Len(requests) = 2
    /\ requests[1].outcome = "TimeoutException"
    /\ requests[2].outcome = "HTTP500"
    /\ chatEnd.outcome = "HTTP500"

\* run() has returned
RunReturned == pc = "returned"

\* C20: on every outcome of run() (completed, failed, cancelled, clone failure
\* part-way) the cleanup of the working tree is attempted: once run() has
\* returned no working tree of the job is left on disk unless rmtree failed.
C20_WorkingTreeRemoved ==
    RunReturned => (disk.exists => disk.rmtree_failed)

\* C19: whenever run() has returned for an existing job, the persisted status is
\* one of completed, failed, cancelled and the persisted status message is not
\* empty.
C19_TerminalWithMessage ==
    RunReturned => (job.status \in Terminal /\ job.message \notin {None, ""})

\* run() is in its "except Exception" handler
InFailedHandler == pc \in {"failed_handler", "failed_handler2"}

StatusOrder ==
    <<"pending", "cloning", "detecting_components", "scanning", "analyzing",
      "generating_report">>

\* place of a status in that order; the terminal statuses come last
Rank(status) ==
    IF status \in Terminal THEN Len(StatusOrder) + 1
    ELSE CHOOSE i \in 1..Len(StatusOrder) : StatusOrder[i] = status

\* the status the engine persisted last (create_job wrote pending)
LastWritten == IF tracker.stage = "" THEN "pending" ELSE tracker.stage

\* this step is a write of the job row by the engine
EngineWrote ==
    /\ job' # job \/ tracker' # tracker
    /\ ~(stopPc = "write" /\ stopPc' = "idle")

StoredBy(run) ==
    {r \in findings : r.scanner = run.scanner /\ r.component = run.component}

\* C21: a finding whose fingerprint is already stored is not double-counted by
\* the scan stage: a completed scanner run's findings count is the number of
\* findings it stored, and the list _run_all_scanners builds has one entry per
\* stored finding.
C21_NoDoubleCount ==
    /\ \A i \in DOMAIN scannerRuns :
          scannerRuns[i].status = "completed" =>
             scannerRuns[i].findings_count = Cardinality(StoredBy(scannerRuns[i]))
    /\ Len(allFindings) = Cardinality(findings)

\* C22: every finding the worker creates from an LLM analysis result reaches
\* create_finding with a severity in {critical, high, medium, low, info},
\* whatever severity the model returned.
C22_SeverityInDomain ==
    /\ (lastCall # <<>> /\ lastCall[1] = "llm") => lastCall[2].severity \in Severities
    /\ \A r \in findings : r.scanner = "llm" => r.severity \in Severities

\* the summary call for component c was made and failed
SummaryCallFailed(c) == SummaryFailed(summaryLog[c])

\* C23: a component whose summary call failed (the chat call errored or the
\* response was not valid JSON) is marked completed and no health score is
\* stored for it
C23_FailedSummaryStoresNoScore ==
    \A c \in 1..NumComponents :
       SummaryCallFailed(c) =>
          /\ components[c].status = "completed"
          /\ components[c].health_score = NoScore

\* the paths of the i-th batch the triage call submitted
BatchPaths(i) ==
    {triage.file_paths[j] :
        j \in (triage.log[i].start + 1)..Min(triage.log[i].start + ChunkSize,
                                              Len(triage.file_paths))}

\* the triage of the i-th batch failed: no skip array came back
TriageFailed(i) == triage.log[i].reply.kind # "object"

\* the number of batches of the candidate list
BatchCount == (Len(triage.file_paths) + ChunkSize - 1) \div ChunkSize

\* C24: a triage failure on one batch adds no path of that batch to the skip
\* set, the following batches are still triaged, and a path is only ever
\* skipped when it was in a submitted batch whose answer named it
C24_TriageFailureKeepsAll ==
    /\ \A i \in DOMAIN triage.log :
          TriageFailed(i) => BatchPaths(i) \cap triage.skipped = {}
    /\ triage.pc = "returned" /\ triage.log # <<>> =>
          /\ Len(triage.log) = BatchCount
          /\ \A i \in DOMAIN triage.log : triage.log[i].start = (i - 1) * ChunkSize
    /\ \A path \in triage.skipped :
          \E i \in DOMAIN triage.log :
             /\ ~TriageFailed(i)
             /\ path \in BatchPaths(i)
             /\ path \in triage.log[i].reply.skip

\* a call whose first batch failed, whose second batch was answered with a path
\* of the first batch, an unlisted path and a path of its own, has returned
C24_Witness ==
    /\ triage.pc = "returned"
    /\ Len(triage.log) >= 2
    /\ TriageFailed(1)
    /\ ~TriageFailed(2)
    /\ {1, UnlistedPath} \subseteq triage.log[2].reply.skip
    /\ triage.skipped # {}

\* the progress band reserved for each stage
StageBand ==
    [cloning |-> <<0, 5>>, detecting_components |-> <<5, 15>>, scanning |-> <<15, 45>>,
     analyzing |-> <<45, 90>>, generating_report |-> <<90, 99>>, completed |-> <<100, 100>>]

InBand(stage, progress) ==
    StageBand[stage][1] <= progress /\ progress <= StageBand[stage][2]

\* C25: every stage update the engine makes writes a progress inside the band
\* of the stage it names: the tracker and the job row get that stage and that
\* progress, and the progress lies in the band
C25_StageUpdateInBand ==
    [][(tracker' # tracker /\ tracker'.stage \in DOMAIN StageBand) =>
          /\ job'.status = tracker'.stage
          /\ job'.progress = tracker'.progress
          /\ InBand(tracker'.stage, tracker'.progress)]_vars

\* a worker has pushed the analyzing progress beyond where the stage began
C25_Witness ==
    /\ tracker.stage = "analyzing" /\ tracker.progress > 50
    /\ job.status = "analyzing" /\ job.progress = tracker.progress

\* C26: the update before universal scanner i of n writes a progress in 15..30,
\* the update before a language scanner of component c of m one in 30..45, and
\* neither is below the progress of the update before it
C26_ScannerProgressInBand ==
    [][/\ (pc = "u_update" /\ pc' = "u_start") =>
             /\ 15 <= tracker'.progress /\ tracker'.progress <= 30
             /\ tracker'.progress >= tracker.progress
             /\ job'.progress = tracker'.progress
       /\ (pc = "l_update" /\ pc' = "l_start") =>
             /\ 30 <= tracker'.progress /\ tracker'.progress <= 45
             /\ tracker'.progress >= tracker.progress
             /\ job'.progress = tracker'.progress]_vars

\* the update before a language scanner of a component after the first was
\* made, after the update of a universal scanner after the first
C26_Witness ==
    /\ pc = "l_start" /\ cIdx > 0 /\ uIdx > 1
    /\ tracker.progress > 30
    /\ job.progress = tracker.progress

\* every worker that was created has returned and run() has awaited them
WorkersJoined ==
    /\ workerCount > 0
    /\ pc \in {"sum_loop", "sum_wait"}
    /\ \A w \in Workers : wpc[w] \in {"none", "done"}

LastAnalysis(t) == analysisLog[t][Len(analysisLog[t])]

\* this step ends an analysis of task t that returned a result while the job
\* was already cancelled
FinishesAfterCancel(t) ==
    /\ analysisLog'[t] # analysisLog[t]
    /\ LastAnalysis(t)'.cancelled
    /\ LastAnalysis(t)'.outcome.kind = "returned"

\* the issues of a list that the worker's loop reaches: those before the first
\* element that is not a dict
Reached(issues) ==
    {k \in DOMAIN issues : \A j \in 1..k : issues[j].dict}

\* the findings table holds an LLM finding of the file of task t with this title
Recorded(store, t, title) ==
    \E r \in store : r.scanner = "llm" /\ r.file_path = FilePath(t) /\ r.title = title

\* C28: a file analysis that is in flight when the job is cancelled completes
\* normally (its summary and its findings are recorded and it is counted as
\* processed), and what a worker discards on cancellation are only tasks whose
\* analysis never started
C28_InFlightCompletes ==
    [][/\ \A t \in Tasks :
             FinishesAfterCancel(t) =>
                LET a == LastAnalysis(t)'.outcome IN
                /\ t \in summaries'[FileComponent(t)]
                /\ processedFiles' = processedFiles + 1
                /\ doneCount'[t] = doneCount[t] + 1
                /\ findings \subseteq findings'
                /\ \A k \in Reached(a.security_issues) :
                      Recorded(findings', t, GetOr(a.security_issues[k].title, "Security Issue"))
                /\ (Reached(a.security_issues) = DOMAIN a.security_issues =>
                      \A k \in Reached(a.quality_issues) :
                         Recorded(findings', t, GetOr(a.quality_issues[k].title, "Quality Issue")))
       /\ (IsCancelled /\ queue # <<>> /\ Len(queue') < Len(queue) - 1) =>
             /\ \A i \in DOMAIN queue :
                   queue[i] # Pill => startCount[queue[i]] = 0 /\ doneCount'[queue[i]] = 0
             /\ wtask' = wtask
             /\ \A w \in Workers : wpc[w] = "inflight" => wpc'[w] = "inflight"]_vars

\* an analysis that reported issues returned after the job was cancelled, and
\* its file has a summary, a stored finding and is counted
C28_Witness ==
    \E t \in Tasks :
       /\ analysisLog[t] # <<>>
       /\ LastAnalysis(t).cancelled
       /\ LastAnalysis(t).outcome.kind = "returned"
       /\ LastAnalysis(t).outcome.security_issues # <<>>
       /\ t \in summaries[FileComponent(t)]
       /\ \E r \in findings : r.scanner = "llm" /\ r.file_path = FilePath(t)
       /\ processedFiles >= 1

\* the try block of the worker ended in an exception: get_file_content or
\* analyze_code raised, or a loop over the issues met an element without get
AnalysisFailed(entry) ==
    \/ entry.outcome.kind = "raises"
    \/ Reached(entry.outcome.security_issues) # DOMAIN entry.outcome.security_issues
    \/ Reached(entry.outcome.quality_issues) # DOMAIN entry.outcome.quality_issues

\* the analysis of some file failed
SomeAnalysisFailed ==
    \E t \in Tasks : \E i \in DOMAIN analysisLog[t] : AnalysisFailed(analysisLog[t][i])

\* C29: a failure while analysing one file neither stops the worker nor fails
\* the job: the file is counted as processed, the worker goes back to the
\* queue, run() stays in the stage, and the job is never marked failed
C29_FileFailureContained ==
    /\ [][\A w \in Workers :
             (wpc[w] \in {"sync", "inflight"} /\ wpc'[w] # wpc[w]
                 /\ AnalysisFailed(LastAnalysis(wtask[w])')) =>
                /\ processedFiles' = processedFiles + 1
                /\ doneCount'[wtask[w]] = doneCount[wtask[w]] + 1
                /\ wpc'[w] = "get"
                /\ pc' = pc /\ exc' = exc
                /\ job'.status # "failed"]_vars
    /\ [](pc \notin {"failed_handler", "failed_handler2"} /\ job.status # "failed")

\* a file analysis failed, every file was counted, the workers joined and the
\* stage went on to the component summaries
C29_Witness ==
    /\ SomeAnalysisFailed
    /\ WorkersJoined /\ ~IsCancelled
    /\ processedFiles = Len(fileJobs) /\ Len(fileJobs) >= 2

\* worker w takes a file task off the queue while the job is cancelled
ObservesCancellation(w) ==
    /\ wpc[w] = "get" /\ wpc'[w] # "get"
    /\ IsCancelled
    /\ queue # <<>> /\ Head(queue) # Pill

\* C30: a worker that finds the job cancelled when it has taken a task does not
\* analyse the task, does not count it, emits no progress, discards every item
\* left in the queue and exits
C30_CancelledTaskDiscarded ==
    [][\A w \in Workers :
          ObservesCancellation(w) =>
             /\ startCount' = startCount /\ wtask' = wtask
             /\ analysisLog' = analysisLog /\ summaries' = summaries
             /\ findings' = findings
             /\ processedFiles' = processedFiles /\ doneCount' = doneCount
             /\ tracker' = tracker /\ job' = job /\ lastProgress' = lastProgress
             /\ queue' = <<>>
             /\ unfinished' = unfinished - Len(queue)
             /\ wpc'[w] = "done" /\ pills'[w] = pills[w]]_vars

\* a worker has exited without a pill, the queue is empty and a file was never
\* started nor counted
C30_Witness ==
    /\ \E w \in Workers : wpc[w] = "done" /\ pills[w] = 0
    /\ queue = <<>>
    /\ \E i \in DOMAIN fileJobs : startCount[fileJobs[i]] = 0
    /\ processedFiles < Len(fileJobs)

\* sequence a is the beginning of sequence b
IsPrefix(a, b) == Len(a) <= Len(b) /\ SubSeq(b, 1, Len(a)) = a

\* this step is one call of log_step: components and files saved, a scanner's
\* findings stored, a worker starting a file, the workers awaited, a component
\* summary about to be asked for, the report stored
LogStepTaken ==
    \/ (At("save") /\ ip' = ip + 1)
    \/ (pc \in {"u_scan", "l_scan"} /\ pc' # pc
           /\ scannerRuns'[Len(scannerRuns')].status = "completed")
    \/ startCount' # startCount
    \/ (pc = "llm_await" /\ pc' = "sum_loop")
    \/ (pc = "sum_loop" /\ pc' = "sum_wait")
    \/ (pc = "report_wait" /\ pc' = "run")

\* C31: a step log adds one entry to the status trace, carrying the tracker's
\* stage and progress, and leaves status, progress and status message of the
\* job as they were; no step changes or removes an entry of the trace
C31_StepLogAppendsOnly ==
    [][/\ IsPrefix(job.updates, job'.updates)
       /\ LogStepTaken =>
             /\ Len(job'.updates) = Len(job.updates) + 1
             /\ job'.updates[Len(job'.updates)].stage = tracker.stage
             /\ job'.updates[Len(job'.updates)].progress = tracker.progress
             /\ job'.status = job.status
             /\ job'.progress = job.progress
             /\ job'.message = job.message
             /\ job'.error = job.error
             /\ tracker' = tracker]_vars

\* the job completed and its trace holds the step log of the stored report
\* between the status updates
C31_Witness ==
    /\ job.status = "completed"
    /\ \E i \in DOMAIN job.updates :
          /\ job.updates[i].message = "Report generated"
          /\ job.updates[i].stage = "generating_report"
          /\ i < Len(job.updates)

\* a scanner has been invoked and has not returned
ScannerInvoked == pc \in {"u_scan", "l_scan"}

\* C32: a ScannerRun is created with status running before its scanner is
\* invoked and is completed or failed before the next scanner starts; once the
\* scan stage has ended, normally or at a cancellation checkpoint, no
\* ScannerRun is running
C32_ScannerRunFinalized ==
    /\ [](\A i \in DOMAIN scannerRuns :
             /\ scannerRuns[i].status \in {"running", "completed", "failed"}
             /\ scannerRuns[i].status = "running" =>
                   i = Len(scannerRuns) /\ ScannerInvoked)
    /\ [][Len(scannerRuns') > Len(scannerRuns) =>
             /\ ~ScannerInvoked /\ ScannerInvoked'
             /\ Len(scannerRuns') = Len(scannerRuns) + 1
             /\ scannerRuns'[Len(scannerRuns')].status = "running"
             /\ \A i \in DOMAIN scannerRuns : scannerRuns'[i] = scannerRuns[i]]_vars

\* the stage ended at a cancellation checkpoint after two scanners had run, one
\* of them failing, and both runs are finalized
C32_Witness ==
    /\ pc = "cancelled_handler"
    /\ Len(scannerRuns) = 2
    /\ scannerRuns[1].status = "failed"
    /\ scannerRuns[2].status = "completed"

\* ---------------------------------------------------------------- C33
\* the scanner invocations whose tool was missing, rejected its target, timed
\* out or failed to start
ToolFailed(i) == outcomeLog[i].tool \in ToolFailures

\* C33: a scanner invocation whose tool exceeds its timeout, is unavailable or
\* errors inside run() is that scanner's failure: its ScannerRun is never
\* recorded as completed.  (Refuted: run() turns these into an empty result,
\* scan() returns [], and the engine records the run as completed with 0
\* findings.)
C33_ToolFailureIsNotCompletion ==
    \A i \in DOMAIN outcomeLog :
        ToolFailed(i) => scannerRuns[i].status # "completed"

\* the part of C33 the code keeps: after a failed tool the next scanner runs
C33_NextScannerRuns ==
    /\ Len(outcomeLog) = 2 /\ ToolFailed(1) /\ outcomeLog[1].tool = "timeout"
    /\ scannerRuns[1].status = "completed" /\ scannerRuns[2].status = "completed"
    /\ job.status = "scanning"
\* ---------------------------------------------------------------- C34
\* C34: retries and fallbacks do not compound: within one chat call the
\* fallback chain runs at most once (its requests are one block after the last
\* request of the requested model, no alternate asked twice), a timeout of a
\* fallback attempt is followed only by the next alternate or by the end of
\* the call, and the call sends at most 2 requests to the requested model plus
\* one to each alternate.
C34_RetriesDoNotCompound ==
    /\ Len(requests) <= StopAfterAttempt + Len(FallbackModels)
    /\ Len(FallbackRequests) <= Len(FallbackModels)
    /\ \A j, k \in 1..Len(requests) :
          /\ (j < k /\ requests[j].kind = "fallback") =>
                /\ requests[k].kind = "fallback"
                /\ requests[k].model # requests[j].model
          /\ (j < k /\ requests[j].kind = "fallback" /\ requests[k].kind = "fallback") =>
                FallbackIndex(requests[j].model) < FallbackIndex(requests[k].model)
    /\ (Len(requests) > 0 /\ requests[Len(requests)].kind = "fallback") => aPc # "chat"

\* the longest call: a timeout of the requested model, a 401 at the retry,
\* then every alternate once, the last of them timing out; chat raised the 401
C34_Witness ==
    /\ ChatHasEnded
    /\ Len(requests) = StopAfterAttempt + Len(FallbackModels)
    /\ requests[1].outcome = "TimeoutException"
    /\ requests[2].outcome = "HTTP401"
    /\ requests[Len(requests)].kind = "fallback"
    /\ requests[Len(requests)].outcome = "TimeoutException"
    /\ chatEnd.outcome = "HTTP401"
\* ---------------------------------------------------------------- C35
\* the step log shows a clone that was started and did not succeed
CloneFailed ==
    /\ \E i \in DOMAIN job.updates : job.updates[i].message = "Cloning"
    /\ \A i \in DOMAIN job.updates : job.updates[i].message # "Cloned at commit"

\* C35: if cloning the repository fails the job is aborted before scanning
\* begins: run() goes to its failure handler and returns False with status
\* failed written, and no component (with its files), scanner run, finding or
\* report is ever created for the job.
C35_CloneFailureAborts ==
    /\ [](CloneFailed =>
            /\ pc \in {"failed_handler", "failed_handler2", "returned"}
            /\ exc = "Failed to clone repository"
            /\ components = <<>> /\ scannerRuns = <<>> /\ findings = {}
            /\ allFindings = <<>> /\ reports = 0)
    /\ [][(CloneFailed /\ pc # "returned" /\ pc' = "returned") =>
            /\ job'.status = "failed" /\ job'.error = "Failed to clone repository"
            /\ result' = FALSE]_vars

\* run() has returned False after a failed clone, the job row says failed
C35_Witness ==
    /\ CloneFailed /\ RunReturned /\ ~result
    /\ job.status = "failed" /\ job.error = "Failed to clone repository"
    /\ Len(job.updates) = 4
\* ---------------------------------------------------------------- C36
\* the engine is about to execute self._ensure_not_cancelled(): between the
\* stages of run(), on entering a stage, at the head of an iteration of the
\* scanner loops and of the summary loop
AtCheckpoint ==
    \/ At("check") \/ At("scanners") \/ At("llm") \/ At("report")
    \/ ~killed /\ pc = "u_loop" /\ uIdx < Len(UniversalScanners)
    \/ ~killed /\ pc = "c_loop" /\ cIdx < NumComponents
    \/ ~killed /\ pc = "l_loop" /\ sIdx < Len(CurrentLanguageScanners)
    \/ ~killed /\ pc = "sum_loop" /\ sumIdx < NumComponents

\* the engine takes a step
EngineMoves == pc' # pc \/ ip' # ip \/ cIdx' # cIdx \/ sumIdx' # sumIdx

\* C36: the cancellation raised at a checkpoint is never swallowed: a
\* checkpoint that finds the job cancelled always passes control to the
\* top-level handler, writing nothing on the way; control reaches that handler
\* from checkpoints only; the handler records cancelled with the progress the
\* engine last reported and run() returns False.
C36_CancellationUnwinds ==
    /\ [][(AtCheckpoint /\ IsCancelled /\ EngineMoves) =>
            /\ pc' = "cancelled_handler"
            /\ UNCHANGED <<job, tracker, scannerRuns, findings, components, reports>>]_vars
    /\ [][(pc # "cancelled_handler" /\ pc' = "cancelled_handler") =>
            AtCheckpoint /\ IsCancelled]_vars
    /\ [][(pc = "cancelled_handler" /\ pc' # pc) =>
            /\ pc' = "returned" /\ result' = FALSE
            /\ job'.status = "cancelled" /\ job'.progress = tracker.progress
            /\ tracker' = tracker]_vars

\* the cancellation was seen at the checkpoint of the first component, after
\* the universal scanners; run() returned False from the cancellation handler,
\* the row holding the progress of the last scanner update
C36_Witness ==
    /\ RunReturned /\ ~result /\ job.status = "cancelled"
    /\ cIdx = 0 /\ uIdx = Len(UniversalScanners) /\ Len(scannerRuns) = uIdx
    /\ job.progress = tracker.progress /\ tracker.progress < 30
\* ---------------------------------------------------------------- C37
\* place of the first key of the configuration that is k once trimmed
FirstPlace(k) ==
    LET raw == RawKeys(keyring.config)
    IN CHOOSE i \in DOMAIN raw : Strip(raw[i]) = k /\ \A j \in 1..(i - 1) : Strip(raw[j]) # k

\* the job configuration holds a key that is not blank
HasConfiguredKey ==
    \E i \in DOMAIN RawKeys(keyring.config) : Strip(RawKeys(keyring.config)[i]) # <<>>

\* C37: each worker is bound to one credential and no two workers share one:
\* the clients' keys are the configured keys trimmed, without blanks and
\* repetitions, in the order of their first occurrence (one client of the
\* settings key if none is configured); worker i uses client i, and there are
\* never more workers than clients.
C37_OneCredentialPerWorker ==
    keyring.step \in {"clients", "no_files", "workers"} =>
       LET clients == keyring.clients
           workers == keyring.workers
           raw == RawKeys(keyring.config)
       IN /\ Len(clients) >= 1
          /\ \A i \in DOMAIN clients : clients[i] # <<>>
          /\ \A i, j \in DOMAIN clients : i # j => clients[i] # clients[j]
          /\ HasConfiguredKey =>
                /\ \A i \in DOMAIN clients :
                      /\ Strip(clients[i]) = clients[i]
                      /\ \E k \in DOMAIN raw : Strip(raw[k]) = clients[i]
                /\ \A k \in DOMAIN raw :
                      Strip(raw[k]) # <<>> => InSeq(Strip(raw[k]), clients)
                /\ \A i, j \in DOMAIN clients :
                      i < j => FirstPlace(clients[i]) < FirstPlace(clients[j])
          /\ ~HasConfiguredKey =>
                Len(clients) = 1 /\ Strip(clients[1]) = Strip(keyring.config.settings_key)
          /\ Len(workers) <= Len(clients)
          /\ \A w \in DOMAIN workers : workers[w] = clients[w]
          /\ \A v, w \in DOMAIN workers : v # w => workers[v] # workers[w]
          /\ keyring.step = "workers" =>
                Len(workers) = Min(Len(clients), keyring.config.files)

\* a key list with a padded key and a longer key and the padded key once more as
\* ollama_api_key: two clients, and with three files two workers
C37_Witness ==
    /\ keyring.step = "workers"
    /\ keyring.config.raw_kind = "list"
    /\ keyring.config.raw_list = <<Item(<<"a", " ">>), Item(<<"a", "a">>)>>
    /\ keyring.config.single_key = Item(<<" ", "a">>)
    /\ keyring.clients = << <<"a">>, <<"a", "a">> >>
    /\ keyring.workers = keyring.clients
\* ---------------------------------------------------------------- C38
\* the tasks of a sequence of queue items, pills left out
TasksOf(q) == SelectSeq(q, LAMBDA item : item # Pill)

\* every code file is in the sequence exactly once, and nothing else is
EveryFileOnce(jobs) ==
    /\ Len(jobs) = env.files
    /\ \A t \in 1..env.files : \E i \in DOMAIN jobs : jobs[i] = t
    /\ \A i, j \in DOMAIN jobs : i # j => jobs[i] # jobs[j]

\* the sequence is a run of files in their original order followed by another
\* such run: the kept files, then the flagged ones
KeptThenFlagged(jobs) ==
    \E k \in 0..Len(jobs) :
       \A i, j \in DOMAIN jobs :
          (i < j /\ ((i <= k) = (j <= k))) => jobs[i] < jobs[j]

\* C38: the name triage never changes the set of queued file tasks: when the
\* queue is filled it holds every file that passed the code-file filter
\* exactly once, the flagged files moved behind the kept ones, each group in
\* its original order; and file_jobs stays that way for the rest of the stage.
C38_TriageKeepsTasks ==
    /\ [][(pc = "llm_triage" /\ pc' # pc) =>
            /\ pc' = "llm_join"
            /\ EveryFileOnce(fileJobs') /\ KeptThenFlagged(fileJobs')
            /\ TasksOf(queue') = fileJobs'
            /\ Len(queue') = env.files + workerCount']_vars
    /\ [](pc \in {"llm_join", "llm_await", "sum_loop", "sum_wait"} =>
            EveryFileOnce(fileJobs))

\* three files, the first of them flagged by the triage: it is queued last
C38_Witness ==
    /\ pc = "llm_join" /\ fileJobs = <<2, 3, 1>>
    /\ TasksOf(queue) = fileJobs /\ startCount = [t \in Tasks |-> 0]
\* ---------------------------------------------------------------- C39
\* the workers that hold an item whose task_done() is still to come
HoldingTask == {w \in Workers : wpc[w] \in {"sync", "inflight"}}

C40_StreamEndsAtTerminal ==
    (RunReturned /\ job.status \in Terminal
       /\ stream.last_status = job.status /\ stream.last_progress = job.progress)
        => stream.step = "ended"

\* run() returned with the job completed and the stream sent it and ended
C40_CompletedStreamEnds ==
    /\ RunReturned /\ job.status = "completed"
    /\ stream.last_status = "completed" /\ stream.step = "ended"
====
